---- MODULE Spec2Model ----
(***************************************************************************)
(* A model of teleskope's frontend core: the topology Dashboard (graph     *)
(* construction from the ingress, service and pod lists), the resource     *)
(* profile resolver, the status classifier and the table cells; and of its *)
(* shell: the delete mutation over the query cache, App's selection state, *)
(* the Sidebar search, and the context switch down to the Go Client.       *)
(*                                                                         *)
(* Strings whose characters matter (node ids, namespaces, names, status    *)
(* words, profile keys) are sequences of one-character strings, so that    *)
(* concatenation, case folding and stripping are computed, not assumed.    *)
(* A JavaScript value that may be of several types is a record tagged by   *)
(* its "kind".                                                             *)
(***************************************************************************)
EXTENDS Integers, Sequences, FiniteSets, TLC

VARIABLES
    \* Dashboard: the three useResources results and their isLoading flags
    ingresses, services, pods,
    loadingIngress, loadingService, loadingPod,
    \* Dashboard: the useNodesState / useEdgesState values handed to ReactFlow
    nodes, edges,
    \* Dashboard effect: the locals of its most recent run
    allNodes, allEdges, nsEdgesOf,
    \* number of runs of the effect that reached setNodes (bounds the model)
    passes,
    \* the layout engine in use
    dagre,
    \* how many times each list has been delivered, and the deliveries and
    \* isLoading flags the effect's most recent build ran with
    fetchRound, builtFrom,
    \* the node last clicked and the onNavigate calls that click made; App's
    \* selection state, which onNavigate (handleNavigate) sets
    clicked, navigated, selectedResource, selectedDetail, detailPanelOpen,
    \* status classifier: the raw status, and getStatusClass / getStatusIcon of it
    rawStatus, statusClass, statusIcon,
    \* getPodStatus: the record it is given and its result
    podResource, podStatus,
    \* resolveResourceProfile: the identity, its key and the profile returned
    gvk, profileKey, profile,
    \* formatValue: the cell value, the column type, the clock (ms) and the
    \* text returned
    value, colType, now, formatted,
    \* extractValue: the record, the path, what the evaluator does with them
    \* and the value returned
    json, path, outcome, result,
    \* the cluster's records of the kind the table lists, the table's namespace
    \* filter, the query cache (list queries by the namespace of their key,
    \* single-resource queries by record), the delete mutation and the timer
    \* its onSettled sets
    server, namespace, queries, resourceQueries, mutation, timer,
    \* App: the view shown and whether the window is at least 1280 wide
    currentView, isLargeScreen,
    \* Sidebar: the search text, the expanded categories, the two refs of the
    \* search effect and the categories of the discovered API resources
    search, expandedCategories, prevSearchRef, prevExpandedRef, groupedResources,
    \* the Go App's k8sClient and what its last call returned; the cached
    \* queries of useKube by the first element of their key; the
    \* useSetActiveContext mutation
    k8sClient, err, kubeQueries, setContext

dashVars == <<ingresses, services, pods, loadingIngress, loadingService,
              loadingPod, nodes, edges, allNodes, allEdges, nsEdgesOf, passes, dagre,
              fetchRound, builtFrom>>
navVars == <<clicked, navigated, selectedResource, selectedDetail, detailPanelOpen>>
statusVars == <<rawStatus, statusClass, statusIcon, podResource, podStatus>>
profileVars == <<gvk, profileKey, profile>>
formatVars == <<value, colType, now, formatted>>
extractVars == <<json, path, outcome, result>>
cellVars == <<formatVars, extractVars>>
deleteVars == <<server, namespace, queries, resourceQueries, mutation, timer>>
appVars == <<currentView, isLargeScreen>>
sidebarVars == <<search, expandedCategories, prevSearchRef, prevExpandedRef,
                 groupedResources>>
contextVars == <<k8sClient, err, kubeQueries, setContext>>
otherVars == <<sidebarVars, contextVars>>
shellVars == <<deleteVars, appVars, otherVars>>
vars == <<dashVars, statusVars, profileVars, cellVars, navVars, shellVars>>

-----------------------------------------------------------------------------
(* Bounds *)

MaxPasses == 2
MaxServices == 2
MaxPods == 2
MaxIngresses == 1
MaxInserted == 1
MaxUnits == 2
MaxPathLen == 3
MaxRounds == 2
MaxDeletes == 1
MaxSwitches == 1

-----------------------------------------------------------------------------
(* Generic helpers *)

Undefined == [kind |-> "undefined"]
Null == [kind |-> "null"]
Str(s) == [kind |-> "string", s |-> s]
Num(n) == [kind |-> "number", n |-> n]
Bool(b) == [kind |-> "boolean", b |-> b]
Obj(m) == [kind |-> "map", m |-> m]
Arr(items) == [kind |-> "array", items |-> items]

Range(f) == {f[i] : i \in DOMAIN f}

RECURSIVE Flatten(_)
Flatten(ss) == IF ss = <<>> THEN <<>> ELSE Head(ss) \o Flatten(Tail(ss))

\* JavaScript truthiness of a tagged value
Truthy(v) ==
    CASE v.kind = "undefined" -> FALSE
      [] v.kind = "null" -> FALSE
      [] v.kind = "number" -> v.n # 0
      [] v.kind = "boolean" -> v.b
      [] v.kind = "string" -> v.s # <<>>
      [] OTHER -> TRUE

\* UTF-16 code units of the characters used in namespaces and names
CharCode(c) ==
    CASE c = "-" -> 45
      [] c = "a" -> 97
      [] c = "b" -> 98
      [] c = "c" -> 99
      [] c = "z" -> 122
      [] OTHER -> 0

\* s < t in the order Array.prototype.sort() uses by default
RECURSIVE LexLess(_, _)
LexLess(s, t) ==
    IF t = <<>> THEN FALSE
    ELSE IF s = <<>> THEN TRUE
    ELSE IF CharCode(Head(s)) # CharCode(Head(t))
         THEN CharCode(Head(s)) < CharCode(Head(t))
    ELSE LexLess(Tail(s), Tail(t))

RECURSIVE SortStrings(_)
SortStrings(S) ==
    IF S = {} THEN <<>>
    ELSE LET m == CHOOSE x \in S : \A y \in S \ {x} : LexLess(x, y)
         IN <<m>> \o SortStrings(S \ {m})

\* the decimal index strings of a short string or array
IndexKey(i) ==
    CASE i = 1 -> "0" [] i = 2 -> "1" [] i = 3 -> "2" [] OTHER -> "3"

-----------------------------------------------------------------------------
(* Dashboard: graph construction *)

Hyphen == <<"-">>
TagSvc == <<"s", "v", "c">>
TagIng == <<"i", "n", "g">>
TagPod == <<"p", "o", "d">>
NsGroupPrefix == <<"n", "s", "-", "g", "r", "o", "u", "p", "-">>

\* `${tag}-${ns}-${name}`
NodeId(tag, ns, name) == tag \o Hyphen \o ns \o Hyphen \o name

\* `e-${source}-${target}`
EdgeId(source, target) == <<"e">> \o Hyphen \o source \o Hyphen \o target

GroupId(ns) == NsGroupPrefix \o ns

\* Object.entries(value) as a set of <<key, value>> pairs
ObjectEntries(v) ==
    CASE v.kind = "map" -> {<<k, v.m[k]>> : k \in DOMAIN v.m}
      [] v.kind = "string" -> {<<IndexKey(i), Str(<<v.s[i]>>)>> : i \in DOMAIN v.s}
      [] OTHER -> {}

\* obj[k] for a truthy value obj
GetProp(obj, k) ==
    CASE obj.kind = "map" -> IF k \in DOMAIN obj.m THEN obj.m[k] ELSE Undefined
      [] obj.kind = "string" ->
            IF \E i \in DOMAIN obj.s : IndexKey(i) = k
            THEN Str(<<obj.s[CHOOSE i \in DOMAIN obj.s : IndexKey(i) = k]>>)
            ELSE Undefined
      [] OTHER -> Undefined

\* pod.metadata.labels || {}
PodLabels(pod) == IF Truthy(pod.labels) THEN pod.labels ELSE Obj(<<>>)

\* Object.entries(selector).every(([k, v]) => podLabels[k] === v)
SelectorMatchesAny(selector, podLabels) ==
    \E e \in ObjectEntries(selector) : GetProp(podLabels, e[1]) = e[2]
SelectorMatches(selector, podLabels) ==
    \A e \in ObjectEntries(selector) : GetProp(podLabels, e[1]) = e[2]

\* Map.prototype.set on an insertion-ordered list of [id, selector] entries
MapSet(map, id, sel) ==
    IF \E i \in DOMAIN map : map[i].id = id
    THEN [i \in DOMAIN map |-> IF map[i].id = id THEN [id |-> id, sel |-> sel] ELSE map[i]]
    ELSE Append(map, [id |-> id, sel |-> sel])

\* if (sel) serviceMap.set(id, sel), over bucket.services
RECURSIVE ServiceMap(_, _)
ServiceMap(ns, svcs) ==
    IF svcs = <<>> THEN <<>>
    ELSE LET rest == ServiceMap(ns, SubSeq(svcs, 1, Len(svcs) - 1))
             svc == svcs[Len(svcs)]
         IN IF Truthy(svc.selector)
            THEN MapSet(rest, NodeId(TagSvc, ns, svc.name), svc.selector)
            ELSE rest

\* data.resourceInfo of the nodes of one collection
ResourceInfo(kind) ==
    [group |-> IF kind = "Ingress" THEN <<"networking.k8s.io">> ELSE <<>>,
     version |-> <<"v1">>,
     kind |-> kind,
     name |-> CASE kind = "Service" -> "services"
                [] kind = "Ingress" -> "ingresses"
                [] OTHER -> "pods",
     namespaced |-> TRUE]

ResourceNode(tag, kind, ns, r) ==
    [id |-> NodeId(tag, ns, r.name),
     type |-> "default",
     parentId |-> GroupId(ns),
     data |-> [type |-> kind, fullResource |-> r, resourceInfo |-> ResourceInfo(kind)],
     position |-> [x |-> 0, y |-> 0]]

\* the svcName of every path of every rule, in order: optional chaining skips
\* a missing spec.rules, a missing rule.http.paths and a missing backend name
BackendNames(ing) ==
    IF ing.rules.kind # "array" THEN <<>>
    ELSE Flatten([i \in DOMAIN ing.rules.items |->
            IF ing.rules.items[i].kind # "array" THEN <<>>
            ELSE ing.rules.items[i].items])

Edge(source, target) ==
    [id |-> EdgeId(source, target), source |-> source, target |-> target]

\* Edges: Ingress -> Service, for one ingress
EdgesTo(id, ns, names) ==
    [i \in DOMAIN names |-> Edge(id, NodeId(TagSvc, ns, names[i].s))]
IngressEdges(ns, ing) ==
    EdgesTo(NodeId(TagIng, ns, ing.name), ns, SelectSeq(BackendNames(ing), Truthy))

\* Edges: Service -> Pod, for one pod
EdgesFrom(hits, id) == [i \in DOMAIN hits |-> Edge(hits[i].id, id)]
MatchingEntries(serviceMap, podLabels) ==
    SelectSeq(serviceMap, LAMBDA e : SelectorMatches(e.sel, podLabels))
PodEdges(ns, pod, serviceMap) ==
    EdgesFrom(MatchingEntries(serviceMap, PodLabels(pod)), NodeId(TagPod, ns, pod.name))

\* the body of sortedNs.forEach for one namespace, given its bucket and its
\* serviceMap: nsNodes and nsEdges
NsBuildFrom(ns, bIng, bSvc, bPod, serviceMap) ==
    [nsNodes |->
        [i \in DOMAIN bSvc |-> ResourceNode(TagSvc, "Service", ns, bSvc[i])]
        \o [i \in DOMAIN bIng |-> ResourceNode(TagIng, "Ingress", ns, bIng[i])]
        \o [i \in DOMAIN bPod |-> ResourceNode(TagPod, "Pod", ns, bPod[i])],
     nsEdges |->
        Flatten([i \in DOMAIN bIng |-> IngressEdges(ns, bIng[i])])
        \o Flatten([i \in DOMAIN bPod |-> PodEdges(ns, bPod[i], serviceMap)])]

BucketOfAll(records, ns) == records
\* getNsBucket(ns).services after the three forEach that fill the buckets
Bucket(records, ns) == SelectSeq(records, LAMBDA r : r.namespace = ns)

NsBuildOf(ns, bIng, bSvc, bPod) ==
    NsBuildFrom(ns, bIng, bSvc, bPod, ServiceMap(ns, bSvc))
NsBuild(ns, ings, svcs, pds) ==
    NsBuildOf(ns, Bucket(ings, ns), Bucket(svcs, ns), Bucket(pds, ns))

\* The layout engine.  It is a library outside this repository; it gives
\* every node id of the graph a centre, the same for the same graph.  Two
\* engines stand for it: both put a node in the column of its rank (the longest
\* chain of edges leading to it), 180 + ranksep apart, and stack the nodes of a
\* rank 60 + nodesep apart; "top" starts every rank at the top, "centre"
\* centres every rank against the longest one.
DagreEngines == {"top", "centre"}

Max(S) == CHOOSE m \in S : \A n \in S : n <= m
Min(S) == CHOOSE m \in S : \A n \in S : m <= n

NodeIds(ns) == {ns[i].id : i \in DOMAIN ns}
FirstIndex(ns, id) ==
    CHOOSE i \in DOMAIN ns : ns[i].id = id /\ \A j \in 1..(i - 1) : ns[j].id # id
Sources(es, id) == {es[i].source : i \in {j \in DOMAIN es : es[j].target = id}}
RECURSIVE Rank(_, _)
Rank(es, id) ==
    IF Sources(es, id) = {} THEN 0
    ELSE 1 + Max({Rank(es, source) : source \in Sources(es, id)})
RankMembers(ns, es, rank) == {id \in NodeIds(ns) : Rank(es, id) = rank}
LongestRank(ns, es) ==
    Max({Cardinality(RankMembers(ns, es, Rank(es, id))) : id \in NodeIds(ns)})
Above(ns, members, id) ==
    Cardinality({other \in members : FirstIndex(ns, other) < FirstIndex(ns, id)})
CentreIn(ns, es, id, rank, members) ==
    [x |-> 90 + (180 + 60) * rank,
     y |-> 30 + (60 + 30) * Above(ns, members, id)
           + (IF dagre = "centre"
              THEN 45 * (LongestRank(ns, es) - Cardinality(members))
              ELSE 0)]
CentreAt(ns, es, id, rank) == CentreIn(ns, es, id, rank, RankMembers(ns, es, rank))
\* dagre.layout(dagreGraphInstance); dagreGraphInstance.node(id)
DagreNode(ns, es, id) == CentreAt(ns, es, id, Rank(es, id))

padding == 40
headerHeight == 40
NS_PADDING == 50

\* finalNodes, width and height for the positioned nodes and their bounds
Shifted(positionedNodes, minX, minY, maxX, maxY) ==
    [nodes |-> [i \in DOMAIN positionedNodes |->
                    [positionedNodes[i] EXCEPT
                        !.position = [x |-> @.x - minX + padding,
                                      y |-> @.y - minY + headerHeight + padding]]],
     width |-> (maxX - minX) + (padding * 2),
     height |-> (maxY - minY) + headerHeight + (padding * 2)]
BoundedByCorners(positionedNodes, xs, ys) ==
    Shifted(positionedNodes, Min(xs), Min(ys), Max(xs), Max(ys))
Bounded(positionedNodes, xs, ys) ==
    Shifted(positionedNodes, Min(xs), Min(ys), Max(xs) + 180, Max(ys) + 60)
Positioned(positionedNodes) ==
    Bounded(positionedNodes,
            {positionedNodes[i].position.x : i \in DOMAIN positionedNodes},
            {positionedNodes[i].position.y : i \in DOMAIN positionedNodes})
PositionOf(centre) == [x |-> centre.x - 90, y |-> centre.y - 30]
layoutNamespaceContent(ns, es) ==
    IF ns = <<>> THEN [nodes |-> <<>>, width |-> 200, height |-> 100]
    ELSE Positioned([i \in DOMAIN ns |->
            [ns[i] EXCEPT !.position = PositionOf(DagreNode(ns, es, ns[i].id))]])

GroupNode(ns, layout, currentY) ==
    [id |-> GroupId(ns), type |-> "namespace", parentId |-> <<>>,
     data |-> [label |-> ns],
     style |-> [width |-> layout.width, height |-> layout.height],
     position |-> [x |-> 0, y |-> currentY]]

Items(d) == IF d.kind = "array" THEN d.items ELSE <<>>

\* the keys of resourcesByNs in insertion order
RECURSIVE Distinct(_)
Distinct(seq) ==
    IF seq = <<>> THEN <<>>
    ELSE LET front == Distinct(SubSeq(seq, 1, Len(seq) - 1))
         IN IF seq[Len(seq)] \in Range(front) THEN front ELSE Append(front, seq[Len(seq)])
UnsortedNs(ings, svcs, pds) ==
    Distinct([i \in DOMAIN (ings \o svcs \o pds) |-> (ings \o svcs \o pds)[i].namespace])
\* Array.from(resourcesByNs.keys()).sort()
SortedNs(ings, svcs, pds) ==
    SortStrings({r.namespace : r \in Range(ings) \cup Range(svcs) \cup Range(pds)})

\* if (nsNodes.length === 0) return; otherwise the group node, the child
\* nodes and the edges of each namespace, in sortedNs order
RECURSIVE CurrentY(_, _)
CurrentY(layouts, j) ==
    IF j = 1 THEN 0
    ELSE CurrentY(layouts, j - 1) + layouts[j - 1].height + NS_PADDING
Placed(sortedNs, per, kept, layouts) ==
    [allNodes |-> Flatten([j \in DOMAIN kept |->
                    <<GroupNode(sortedNs[kept[j]], layouts[j], CurrentY(layouts, j))>>
                    \o layouts[j].nodes]),
     allEdges |-> Flatten([j \in DOMAIN kept |-> per[kept[j]].nsEdges]),
     nsEdgesOf |-> [j \in DOMAIN kept |->
                    [ns |-> sortedNs[kept[j]], edges |-> per[kept[j]].nsEdges]]]
Collect(sortedNs, per, kept) ==
    Placed(sortedNs, per, kept,
           [j \in DOMAIN kept |->
                layoutNamespaceContent(per[kept[j]].nsNodes, per[kept[j]].nsEdges)])
NonEmpty(sortedNs, per) ==
    Collect(sortedNs, per,
            SelectSeq([i \in DOMAIN sortedNs |-> i], LAMBDA i : per[i].nsNodes # <<>>))
BuildSorted(sortedNs, ings, svcs, pds) ==
    NonEmpty(sortedNs, [i \in DOMAIN sortedNs |-> NsBuild(sortedNs[i], ings, svcs, pds)])

\* the effect's body from "Group resources by namespace" to "Move cursor"
BuildGraph(ings, svcs, pds) ==
    BuildSorted(SortedNs(ings, svcs, pds), ings, svcs, pds)

-----------------------------------------------------------------------------
(* Dashboard: the record collections the lists can hold *)

NsA == <<"a">>
NsAB == <<"a", "-", "b">>
NameC == <<"c">>
NameBC == <<"b", "-", "c">>
NameZ == <<"z">>

\* namespace/name pairs in the order the API server lists them
Keys == <<[namespace |-> NsA, name |-> NameBC],
          [namespace |-> NsA, name |-> NameC],
          [namespace |-> NsAB, name |-> NameC]>>

X == Str(<<"x">>)
Y == Str(<<"y">>)
AppX == Obj([k \in {"app"} |-> X])
AppY == Obj([k \in {"app"} |-> Y])
AppXTierY == Obj([k \in {"app", "tier"} |-> IF k = "app" THEN X ELSE Y])
EmptyMap == Obj(<<>>)

\* values of svc.spec.selector and of pod.metadata.labels that are maps, or
\* absent
SelectorMaps == {Undefined, EmptyMap, AppX, AppXTierY}
LabelMaps == {Undefined, AppX, AppY, AppXTierY}
\* values that are no map: null, scalars of the wrong type (beside one map)
SelectorOdd == {Null, Num(0), Num(5), Bool(TRUE), X, AppX}
LabelOdd == {Null, Num(7), AppX}
\* values of ing.spec.rules: absent, or rules whose http.paths is absent or a
\* list of backend service names (absent, or a string)
RuleValues ==
    {Undefined,
     Arr(<<Undefined>>),
     Arr(<<Arr(<<Undefined>>)>>),
     Arr(<<Arr(<<Str(NameC)>>)>>),
     Arr(<<Arr(<<Str(NameZ)>>)>>),
     Arr(<<Arr(<<Str(NameC), Str(NameBC)>>)>>),
     Arr(<<Arr(<<Str(NameC)>>), Arr(<<Str(NameC)>>)>>)}

Service(k, sel) == [namespace |-> k.namespace, name |-> k.name, selector |-> sel]
Pod(k, labels) == [namespace |-> k.namespace, name |-> k.name, labels |-> labels]
Ingress(k, rules) == [namespace |-> k.namespace, name |-> k.name, rules |-> rules]

KeySets(max) == {K \in SUBSET DOMAIN Keys : Cardinality(K) <= max}
KeySeq(K) == SelectSeq([i \in DOMAIN Keys |-> i], LAMBDA i : i \in K)

\* every list of at most max keys, in the API's order, with one attribute each
ListsOver(ks, Attrs) ==
    {[j \in DOMAIN ks |-> [key |-> Keys[ks[j]], attr |-> a[ks[j]]]]
        : a \in [Range(ks) -> Attrs]}
Lists(max, Attrs) == UNION {ListsOver(KeySeq(K), Attrs) : K \in KeySets(max)}
ServiceLists(max, Selectors) ==
    {Arr([j \in DOMAIN l |-> Service(l[j].key, l[j].attr)]) : l \in Lists(max, Selectors)}
PodLists(max, Labels) ==
    {Arr([j \in DOMAIN l |-> Pod(l[j].key, l[j].attr)]) : l \in Lists(max, Labels)}
IngressLists(max, Rules) ==
    {Arr([j \in DOMAIN l |-> Ingress(l[j].key, l[j].attr)]) : l \in Lists(max, Rules)}

-----------------------------------------------------------------------------
(* Dashboard: the effect and the events that trigger it *)

\* setNodes((prev) => [...prev, ...allNodes]); setEdges((prev) => [...prev,
\* ...allEdges])
SetState(g) ==
    /\ allNodes' = g.allNodes
    /\ allEdges' = g.allEdges
    /\ nsEdgesOf' = g.nsEdgesOf
    /\ nodes' = nodes \o g.allNodes
    /\ edges' = edges \o g.allEdges
    /\ passes' = passes + 1

\* the deliveries and flags a build ran with, kept when the effect returned
\* early
Built(rounds, lIng, lSvc, lPod) ==
    builtFrom' = IF passes' = passes THEN builtFrom
                 ELSE [rounds |-> rounds, loading |-> lIng \/ lSvc \/ lPod]

\* useEffect(() => {...}, [ingresses, services, pods, setNodes, setEdges])
\* run with the values of one render
Effect(ing, svc, pod, lIng, lSvc, lPod) ==
    IF lIng \/ lSvc \/ lPod
    THEN UNCHANGED <<nodes, edges, allNodes, allEdges, nsEdgesOf, passes>>
    ELSE IF ing.kind # "array" /\ svc.kind # "array" /\ pod.kind # "array"
    THEN UNCHANGED <<nodes, edges, allNodes, allEdges, nsEdgesOf, passes>>
    ELSE SetState(BuildGraph(Items(ing), Items(svc), Items(pod)))

\* a variable of a component that is not in use
NoInput == [kind |-> "none"]

CellIdle ==
    /\ value = NoInput /\ colType = "" /\ now = 0 /\ formatted = <<>>
    /\ json = NoInput /\ path = <<>> /\ outcome = NoInput /\ result = NoInput

Idle ==
    /\ CellIdle
    /\ rawStatus = NoInput /\ statusClass = "" /\ statusIcon = ""
    /\ podResource = NoInput /\ podStatus = <<>>
    /\ gvk = Undefined /\ profileKey = <<>> /\ profile = Undefined

\* no table is mounted and nothing is cached
DeleteIdle ==
    /\ server = {} /\ namespace = "all"
    /\ queries = <<>> /\ resourceQueries = <<>>
    /\ mutation = NoInput /\ timer = FALSE

\* App as useState initialises it, on a large screen
AppIdle == currentView = "resources" /\ isLargeScreen = TRUE

\* Sidebar as useState and useRef initialise it, before the API resources
\* are discovered
SidebarIdle ==
    /\ search = "" /\ prevSearchRef = ""
    /\ expandedCategories = {"Workloads", "Network"}
    /\ prevExpandedRef = {"Workloads", "Network"}
    /\ groupedResources = {}

\* no backend is running
ContextIdle ==
    /\ k8sClient = NoInput /\ err = NoInput
    /\ kubeQueries = <<>> /\ setContext = NoInput

OtherIdle == SidebarIdle /\ ContextIdle

ShellIdle == DeleteIdle /\ AppIdle /\ OtherIdle

Collections == {"Ingress", "Service", "Pod"}
NavIdle ==
    /\ clicked = NoInput /\ navigated = <<>>
    /\ selectedResource = Null /\ selectedDetail = Null /\ detailPanelOpen = TRUE

DashIdle ==
    /\ NavIdle
    /\ ShellIdle
    /\ builtFrom = NoInput
    /\ nodes = <<>> /\ edges = <<>>
    /\ allNodes = <<>> /\ allEdges = <<>> /\ nsEdgesOf = <<>>
    /\ passes = 0

\* no Dashboard is mounted
DashOff ==
    /\ ingresses = Undefined /\ services = Undefined /\ pods = Undefined
    /\ loadingIngress = TRUE /\ loadingService = TRUE /\ loadingPod = TRUE
    /\ NavIdle
    /\ builtFrom = NoInput
    /\ nodes = <<>> /\ edges = <<>>
    /\ allNodes = <<>> /\ allEdges = <<>> /\ nsEdgesOf = <<>>
    /\ passes = 0
    /\ dagre = "top" /\ fetchRound = [c \in Collections |-> 0]

\* the Dashboard mounted with the three lists already in the query cache
InitMount ==
    /\ \/ /\ ingresses = Arr(<<>>)
          /\ services \in ServiceLists(MaxServices, SelectorOdd)
          /\ pods \in PodLists(MaxPods, LabelOdd)
       \/ /\ ingresses = Arr(<<>>)
          /\ services \in ServiceLists(MaxServices, SelectorMaps)
          /\ pods \in PodLists(MaxPods, LabelMaps)
       \/ /\ ingresses \in IngressLists(MaxIngresses, RuleValues)
          /\ services \in ServiceLists(MaxServices, {AppX})
          /\ pods \in {Undefined, Arr(<<>>)}
       \/ /\ ingresses \in IngressLists(MaxIngresses, {Undefined})
          /\ services \in ServiceLists(MaxServices, {Undefined})
          /\ pods \in PodLists(MaxPods, {Undefined})
    /\ loadingIngress = FALSE /\ loadingService = FALSE /\ loadingPod = FALSE
    /\ DashIdle
    /\ dagre \in DagreEngines /\ fetchRound = [c \in Collections |-> 1]
    /\ Idle

\* the effect's run after the first render
MountEffect ==
    /\ passes = 0
    /\ Effect(ingresses, services, pods, loadingIngress, loadingService, loadingPod)
    /\ Built(fetchRound, loadingIngress, loadingService, loadingPod)
    /\ UNCHANGED fetchRound
    /\ UNCHANGED <<ingresses, services, pods, loadingIngress, loadingService, loadingPod>>
    /\ UNCHANGED <<statusVars, profileVars, cellVars, navVars, dagre, shellVars>>

NextMount == MountEffect

SpecMount == InitMount /\ [][NextMount]_vars

-----------------------------------------------------------------------------
(* Dashboard: the lists arriving and changing while it is mounted *)

IngressSnapshots ==
    {<<>>,
     <<Ingress(Keys[2], Arr(<<Arr(<<Str(NameC)>>)>>))>>}
ServiceSnapshots ==
    {<<>>,
     <<Service(Keys[2], AppX)>>,
     <<Service(Keys[2], AppX), Service(Keys[3], AppX)>>}
PodSnapshots ==
    {<<>>,
     <<Pod(Keys[2], AppX)>>,
     <<Pod(Keys[1], AppY), Pod(Keys[2], AppX)>>}

\* the Dashboard mounted with nothing cached: the three queries are loading
Init ==
    /\ ingresses = Undefined /\ services = Undefined /\ pods = Undefined
    /\ loadingIngress = TRUE /\ loadingService = TRUE /\ loadingPod = TRUE
    /\ DashIdle
    /\ dagre \in DagreEngines /\ fetchRound = [c \in Collections |-> 0]
    /\ Idle

\* a fetch or 10 s refetch of the ingress list returns data that differs from
\* the cached data: the component renders and the effect's dependencies changed
IngressesFetched ==
    /\ passes < MaxPasses
    /\ fetchRound.Ingress < MaxRounds
    /\ fetchRound' = [fetchRound EXCEPT !.Ingress = @ + 1]
    /\ \E d \in IngressSnapshots :
        /\ ingresses # Arr(d)
        /\ ingresses' = Arr(d)
        /\ loadingIngress' = FALSE
        /\ Effect(Arr(d), services, pods, FALSE, loadingService, loadingPod)
        /\ Built(fetchRound', FALSE, loadingService, loadingPod)
    /\ UNCHANGED <<services, pods, loadingService, loadingPod>>
    /\ UNCHANGED <<statusVars, profileVars, cellVars, navVars, dagre, shellVars>>

ServicesFetched ==
    /\ passes < MaxPasses
    /\ fetchRound.Service < MaxRounds
    /\ fetchRound' = [fetchRound EXCEPT !.Service = @ + 1]
    /\ \E d \in ServiceSnapshots :
        /\ services # Arr(d)
        /\ services' = Arr(d)
        /\ loadingService' = FALSE
        /\ Effect(ingresses, Arr(d), pods, loadingIngress, FALSE, loadingPod)
        /\ Built(fetchRound', loadingIngress, FALSE, loadingPod)
    /\ UNCHANGED <<ingresses, pods, loadingIngress, loadingPod>>
    /\ UNCHANGED <<statusVars, profileVars, cellVars, navVars, dagre, shellVars>>

PodsFetched ==
    /\ passes < MaxPasses
    /\ fetchRound.Pod < MaxRounds
    /\ fetchRound' = [fetchRound EXCEPT !.Pod = @ + 1]
    /\ \E d \in PodSnapshots :
        /\ pods # Arr(d)
        /\ pods' = Arr(d)
        /\ loadingPod' = FALSE
        /\ Effect(ingresses, services, Arr(d), loadingIngress, loadingService, FALSE)
        /\ Built(fetchRound', loadingIngress, loadingService, FALSE)
    /\ UNCHANGED <<ingresses, services, loadingIngress, loadingService>>
    /\ UNCHANGED <<statusVars, profileVars, cellVars, navVars, dagre, shellVars>>

\* a first fetch fails: isLoading turns false, data stays undefined, and the
\* effect's dependencies are unchanged, so the effect does not run
IngressesFailed ==
    /\ loadingIngress
    /\ loadingIngress' = FALSE
    /\ UNCHANGED <<ingresses, services, pods, loadingService, loadingPod>>
    /\ UNCHANGED <<nodes, edges, allNodes, allEdges, nsEdgesOf, passes>>
    /\ UNCHANGED <<fetchRound, builtFrom>>
    /\ UNCHANGED <<statusVars, profileVars, cellVars, navVars, dagre, shellVars>>

ServicesFailed ==
    /\ loadingService
    /\ loadingService' = FALSE
    /\ UNCHANGED <<ingresses, services, pods, loadingIngress, loadingPod>>
    /\ UNCHANGED <<nodes, edges, allNodes, allEdges, nsEdgesOf, passes>>
    /\ UNCHANGED <<fetchRound, builtFrom>>
    /\ UNCHANGED <<statusVars, profileVars, cellVars, navVars, dagre, shellVars>>

PodsFailed ==
    /\ loadingPod
    /\ loadingPod' = FALSE
    /\ UNCHANGED <<ingresses, services, pods, loadingIngress, loadingService>>
    /\ UNCHANGED <<nodes, edges, allNodes, allEdges, nsEdgesOf, passes>>
    /\ UNCHANGED <<fetchRound, builtFrom>>
    /\ UNCHANGED <<statusVars, profileVars, cellVars, navVars, dagre, shellVars>>

StartsWith(str, prefix) ==
    Len(str) >= Len(prefix) /\ SubSeq(str, 1, Len(prefix)) = prefix

onNodeClickSwapped(node) ==
    IF StartsWith(node.id, NsGroupPrefix) THEN <<>>
    ELSE <<[resource |-> node.data.resourceInfo,
            name |-> node.data.fullResource.namespace,
            namespace |-> node.data.fullResource.name]>>
\* the onNavigate calls of onNodeClick(_, node)
onNodeClick(node) ==
    IF StartsWith(node.id, NsGroupPrefix) THEN <<>>
    ELSE <<[resource |-> node.data.resourceInfo,
            name |-> node.data.fullResource.name,
            namespace |-> node.data.fullResource.namespace]>>

\* App's handleNavigate for the calls made (none: the selection stays)
handleNavigate(calls) ==
    IF calls = <<>>
    THEN UNCHANGED <<selectedResource, selectedDetail, detailPanelOpen>>
    ELSE /\ selectedResource' = calls[1].resource
         /\ selectedDetail' = [resourceName |-> calls[1].name,
                               namespace |-> calls[1].namespace]
         /\ detailPanelOpen' = TRUE

\* the user clicks one of the displayed nodes
NodeClick ==
    /\ \E i \in DOMAIN nodes :
        /\ clicked' = nodes[i]
        /\ navigated' = onNodeClick(nodes[i])
        /\ handleNavigate(onNodeClick(nodes[i]))
    /\ UNCHANGED <<dashVars, shellVars, statusVars, profileVars, cellVars>>

Next ==
    \/ IngressesFetched
    \/ ServicesFetched
    \/ PodsFetched
    \/ IngressesFailed
    \/ ServicesFailed
    \/ PodsFailed

Spec == Init /\ [][Next]_vars

\* the Dashboard mounted with lists in the query cache, built once and then
\* clicked on
InitClick ==
    /\ ingresses \in {Arr(d) : d \in IngressSnapshots}
    /\ services \in {Arr(d) : d \in ServiceSnapshots}
    /\ pods \in {Arr(d) : d \in PodSnapshots}
    /\ loadingIngress = FALSE /\ loadingService = FALSE /\ loadingPod = FALSE
    /\ DashIdle
    /\ dagre \in DagreEngines /\ fetchRound = [c \in Collections |-> 1]
    /\ Idle

NextClick == MountEffect \/ NodeClick

SpecClick == InitClick /\ [][NextClick]_vars

-----------------------------------------------------------------------------
(* Dashboard: properties *)

ResourceNodes(ns) == {n \in Range(ns) : n.type = "default"}
NsEdges(ns) ==
    IF \E j \in DOMAIN nsEdgesOf : nsEdgesOf[j].ns = ns
    THEN nsEdgesOf[CHOOSE j \in DOMAIN nsEdgesOf : nsEdgesOf[j].ns = ns].edges
    ELSE <<>>
HasEdge(es, source, target) ==
    \E i \in DOMAIN es : es[i].source = source /\ es[i].target = target
SvcId(S) == NodeId(TagSvc, S.namespace, S.name)
PodId(P) == NodeId(TagPod, P.namespace, P.name)
IsMap(v) == v.kind = "map"
\* every key of the selector is present in the labels with an equal value
SubsetOfLabels(S, P) ==
    \A k \in DOMAIN S.selector.m :
        /\ IsMap(P.labels)
        /\ k \in DOMAIN P.labels.m
        /\ P.labels.m[k] = S.selector.m[k]

\* C1: after any sequence of recomputations the node and edge lists held for
\* display are exactly those built from the current ingress, service and pod
\* lists, and no node id is held twice.
C1_DisplayedGraphIsLatest ==
    passes > 0 =>
        LET g == BuildGraph(Items(ingresses), Items(services), Items(pods))
        IN /\ nodes = g.allNodes
           /\ edges = g.allEdges
           /\ \A i, j \in DOMAIN nodes : i # j => nodes[i].id # nodes[j].id

\* C2: within one pass, two nodes built from distinct records (differing in
\* collection, namespace or name) have different ids.
C2_NodeIdsUnique ==
    passes > 0 =>
        \A n, m \in ResourceNodes(allNodes) :
            (\/ n.data.type # m.data.type
             \/ n.data.fullResource.namespace # m.data.fullResource.namespace
             \/ n.data.fullResource.name # m.data.fullResource.name)
            => n.id # m.id

C4_MalformedIsNoMatch ==
    passes > 0 =>
        \A S \in Range(Items(services)), P \in Range(Items(pods)) :
            (S.namespace = P.namespace /\ (~IsMap(S.selector) \/ ~IsMap(P.labels)))
            => ~HasEdge(NsEdges(P.namespace), SvcId(S), PodId(P))

\* C5: the source and the target of every emitted edge are ids of nodes
\* emitted in the same pass.
C5_EdgeEndpointsAreNodes ==
    passes > 0 =>
        \A e \in Range(allEdges) :
            /\ \E n \in Range(allNodes) : n.id = e.source
            /\ \E n \in Range(allNodes) : n.id = e.target

\* C26: no two edges emitted in a pass share an id.
C26_EdgeIdsUnique ==
    passes > 0 =>
        \A i, j \in DOMAIN allEdges : i # j => allEdges[i].id # allEdges[j].id

NodesWithId(id) == {n \in ResourceNodes(allNodes) : n.id = id}
Layered(n, m) ==
    /\ <<n.data.type, m.data.type>> \in {<<"Ingress", "Service">>, <<"Service", "Pod">>}
    /\ n.data.fullResource.namespace = m.data.fullResource.namespace

\* C27: every emitted edge leads from an ingress node to a service node or
\* from a service node to a pod node, and both are of one namespace.
C27_EdgesLayeredInNamespace ==
    passes > 0 =>
        \A e \in Range(allEdges) :
            /\ NodesWithId(e.source) # {}
            /\ NodesWithId(e.target) # {}
            /\ \A n \in NodesWithId(e.source), m \in NodesWithId(e.target) : Layered(n, m)

\* the namespace containers of a pass, in the order emitted, and the children
\* of one
Containers(ns) == SelectSeq(ns, LAMBDA n : n.type = "namespace")
Children(ns, g) == {n \in ResourceNodes(ns) : n.parentId = g.id}
RECURSIVE HeightsBefore(_, _)
HeightsBefore(gs, i) ==
    IF i = 1 THEN 0 ELSE HeightsBefore(gs, i - 1) + gs[i - 1].style.height + 50
Stacked(gs) ==
    /\ \A i \in DOMAIN gs :
        /\ gs[i].position.x = 0
        /\ gs[i].position.y = HeightsBefore(gs, i)
    /\ \A i \in DOMAIN gs : i > 1 =>
        /\ LexLess(gs[i - 1].data.label, gs[i].data.label)
        /\ gs[i - 1].position.y < gs[i].position.y
        /\ gs[i - 1].position.y + gs[i - 1].style.height <= gs[i].position.y

\* C17: the containers of a pass are emitted in ascending order of namespace,
\* each at x = 0 and y = the sum of (height + 50) of the containers before it,
\* so their y offsets increase strictly and they do not overlap vertically.
C17_NamespacesStacked == passes > 0 => Stacked(Containers(allNodes))

\* C17 witness: two containers were emitted, from lists that name the later
\* namespace first.
C17_Witness ==
    /\ passes > 0
    /\ Len(Containers(allNodes)) = 2
    /\ Len(Items(services)) > 0
    /\ Items(services)[1].namespace = NsAB
    /\ Containers(allNodes)[2].position.y > 0

\* C18: every container has a child; every other node's parentId is the id of
\* a container of the pass; there are as many other nodes as input records;
\* and only namespaces that have a record have a container.
C18_NoEmptyContainer ==
    passes > 0 =>
        /\ \A g \in Range(Containers(allNodes)) : Children(allNodes, g) # {}
        /\ \A n \in ResourceNodes(allNodes) :
            \E g \in Range(Containers(allNodes)) : n.parentId = g.id
        /\ Len(SelectSeq(allNodes, LAMBDA n : n.type # "namespace"))
             = Len(Items(ingresses)) + Len(Items(services)) + Len(Items(pods))
        /\ \A g \in Range(Containers(allNodes)) :
            \E r \in Range(Items(ingresses)) \cup Range(Items(services)) \cup Range(Items(pods)) :
                r.namespace = g.data.label

\* C18 witness: records of two namespaces gave two containers and one node
\* per record.
C18_Witness ==
    /\ passes > 0
    /\ Len(Containers(allNodes)) = 2
    /\ Len(Items(services)) + Len(Items(pods)) >= 3
    /\ Len(allNodes) = 2 + Len(Items(ingresses)) + Len(Items(services)) + Len(Items(pods))

Xs(S) == {n.position.x : n \in S}
Ys(S) == {n.position.y : n \in S}
Inset(g, S) ==
    /\ Min(Xs(S)) = 40
    /\ Min(Ys(S)) = 80
    /\ g.style.width = (Max(Xs(S)) + 180 - Min(Xs(S))) + 80
    /\ g.style.height = (Max(Ys(S)) + 60 - Min(Ys(S))) + 40 + 80
    /\ \A n \in S :
        /\ 0 <= n.position.x /\ n.position.x + 180 <= g.style.width
        /\ 0 <= n.position.y /\ n.position.y + 60 <= g.style.height

\* C19: in every container the least child x is 40 and the least child y is
\* 80; the container is as wide as the children's bounding box plus 80 and as
\* high as it plus 40 + 80 (boxes of 180 x 60); every child box is inside it.
C19_ContainerBoundsChildren ==
    passes > 0 =>
        \A g \in Range(Containers(allNodes)) : Inset(g, Children(allNodes, g))

\* C19 witness: a container with children in two columns and two rows.
C19_Witness ==
    /\ passes > 0
    /\ \E g \in Range(Containers(allNodes)) :
        /\ Cardinality(Xs(Children(allNodes, g))) >= 2
        /\ Cardinality(Ys(Children(allNodes, g))) >= 2
        /\ Inset(g, Children(allNodes, g))

Placement(ns) == {<<n.id, n.position>> : n \in Range(ns)}

\* C15: what a computation leaves for display depends on the lists it ran on
\* only: the node ids with their positions, and the edges, are those built
\* from these lists, whatever was computed before.
C15_BuilderIdempotent ==
    passes > 0 =>
        /\ Placement(nodes)
             = Placement(BuildGraph(Items(ingresses), Items(services), Items(pods)).allNodes)
        /\ Range(edges)
             = Range(BuildGraph(Items(ingresses), Items(services), Items(pods)).allEdges)

\* C16: a build never runs while a list is loading, and it runs on lists of
\* one fetch round: each of the three delivered equally often.
C16_ConsistentSnapshot ==
    builtFrom # NoInput =>
        /\ ~builtFrom.loading
        /\ \A c, d \in Collections : builtFrom.rounds[c] = builtFrom.rounds[d]

\* the identity each list is fetched with
FetchIdentity(kind) ==
    [group |-> IF kind = "Ingress" THEN <<"networking.k8s.io">> ELSE <<>>,
     version |-> <<"v1">>,
     kind |-> kind]
Identity(info) == [group |-> info.group, version |-> info.version, kind |-> info.kind]

\* C20: a click on a record's node makes one onNavigate call, with the
\* identity, name and namespace of that record, and the selection becomes
\* these; a click on a namespace container makes no call.
C20_ClickNavigates ==
    clicked # NoInput =>
        IF clicked.type = "namespace" THEN navigated = <<>>
        ELSE /\ Len(navigated) = 1
             /\ Identity(navigated[1].resource) = FetchIdentity(clicked.data.type)
             /\ navigated[1].name = clicked.data.fullResource.name
             /\ navigated[1].namespace = clicked.data.fullResource.namespace
             /\ selectedResource = navigated[1].resource
             /\ selectedDetail = [resourceName |-> clicked.data.fullResource.name,
                                  namespace |-> clicked.data.fullResource.namespace]

\* C20 witness: the node of ingress a/c was clicked and ingress a/c selected.
C20_Witness ==
    /\ clicked # NoInput
    /\ clicked.type = "default"
    /\ clicked.data.type = "Ingress"
    /\ selectedDetail = [resourceName |-> NameC, namespace |-> NsA]
    /\ selectedResource.kind = "Ingress"

-----------------------------------------------------------------------------
(* Resource profiles.  A group, version or kind is a sequence of tokens; "/"  *)
(* is a token of its own, so a key is the concatenation the template builds. *)

NativePod ==
    [key |-> <<"core", "/", "v1", "/", "Pod">>,
     profile |->
       [gvk |-> [group |-> <<>>, version |-> <<"v1">>, kind |-> <<"Pod">>],
        columns |-> <<
            [header |-> "Status", path |-> "$", type |-> "pod-enhanced-status", width |-> "40px"],
            [header |-> "Name", path |-> "$.metadata.name", type |-> "link"],
            [header |-> "Containers", path |-> "$.status.containerStatuses[*]", type |-> "container-statuses"],
            [header |-> "Node", path |-> "$.spec.nodeName", type |-> "text"],
            [header |-> "Age", path |-> "$.metadata.creationTimestamp", type |-> "age"]>>,
        actions |-> Arr(<<[label |-> "View Logs", type |-> "view"],
                 [label |-> "Terminal", type |-> "terminal"],
                 [label |-> "Edit", type |-> "edit"],
                 [label |-> "Delete", type |-> "delete"]>>)]]

NativeDeployment ==
    [key |-> <<"apps", "/", "v1", "/", "Deployment">>,
     profile |->
       [gvk |-> [group |-> <<"apps">>, version |-> <<"v1">>, kind |-> <<"Deployment">>],
        columns |-> <<
            [header |-> "Name", path |-> "$.metadata.name", type |-> "link"],
            [header |-> "Namespace", path |-> "$.metadata.namespace", type |-> "text"],
            [header |-> "Ready", path |-> "$.status.readyReplicas", type |-> "text"],
            [header |-> "Up-to-date", path |-> "$.status.updatedReplicas", type |-> "number"],
            [header |-> "Available", path |-> "$.status.availableReplicas", type |-> "number"],
            [header |-> "Age", path |-> "$.metadata.creationTimestamp", type |-> "age"]>>,
        actions |-> Arr(<<[label |-> "Scale", type |-> "custom"],
                 [label |-> "Edit", type |-> "edit"],
                 [label |-> "Delete", type |-> "delete"]>>)]]

NativeService ==
    [key |-> <<"core", "/", "v1", "/", "Service">>,
     profile |->
       [gvk |-> [group |-> <<>>, version |-> <<"v1">>, kind |-> <<"Service">>],
        columns |-> <<
            [header |-> "Name", path |-> "$.metadata.name", type |-> "link"],
            [header |-> "Namespace", path |-> "$.metadata.namespace", type |-> "text"],
            [header |-> "Type", path |-> "$.spec.type", type |-> "text"],
            [header |-> "Cluster IP", path |-> "$.spec.clusterIP", type |-> "text"],
            [header |-> "External IP", path |-> "$.status.loadBalancer.ingress[0].ip", type |-> "text"],
            [header |-> "Ports", path |-> "$.spec.ports[*].port", type |-> "list"],
            [header |-> "Age", path |-> "$.metadata.creationTimestamp", type |-> "age"]>>,
        actions |-> Undefined]]

NativeIngress ==
    [key |-> <<"networking.k8s.io", "/", "v1", "/", "Ingress">>,
     profile |->
       [gvk |-> [group |-> <<"networking.k8s.io">>, version |-> <<"v1">>, kind |-> <<"Ingress">>],
        columns |-> <<
            [header |-> "Name", path |-> "$.metadata.name", type |-> "link"],
            [header |-> "Namespace", path |-> "$.metadata.namespace", type |-> "text"],
            [header |-> "Class", path |-> "$.spec.ingressClassName", type |-> "text"],
            [header |-> "Hosts", path |-> "$.spec.rules[*].host", type |-> "list"],
            [header |-> "Address", path |-> "$.status.loadBalancer.ingress[0].ip", type |-> "text"],
            [header |-> "Age", path |-> "$.metadata.creationTimestamp", type |-> "age"]>>,
        actions |-> Undefined]]

NativeConfigMap ==
    [key |-> <<"core", "/", "v1", "/", "ConfigMap">>,
     profile |->
       [gvk |-> [group |-> <<>>, version |-> <<"v1">>, kind |-> <<"ConfigMap">>],
        columns |-> <<
            [header |-> "Name", path |-> "$.metadata.name", type |-> "link"],
            [header |-> "Namespace", path |-> "$.metadata.namespace", type |-> "text"],
            [header |-> "Data", path |-> "$.data", type |-> "text"],
            [header |-> "Age", path |-> "$.metadata.creationTimestamp", type |-> "age"]>>,
        actions |-> Undefined]]

NativeSecret ==
    [key |-> <<"core", "/", "v1", "/", "Secret">>,
     profile |->
       [gvk |-> [group |-> <<>>, version |-> <<"v1">>, kind |-> <<"Secret">>],
        columns |-> <<
            [header |-> "Name", path |-> "$.metadata.name", type |-> "link"],
            [header |-> "Namespace", path |-> "$.metadata.namespace", type |-> "text"],
            [header |-> "Type", path |-> "$.type", type |-> "text"],
            [header |-> "Data", path |-> "$.data", type |-> "text"],
            [header |-> "Age", path |-> "$.metadata.creationTimestamp", type |-> "age"]>>,
        actions |-> Undefined]]

NativeNamespace ==
    [key |-> <<"core", "/", "v1", "/", "Namespace">>,
     profile |->
       [gvk |-> [group |-> <<>>, version |-> <<"v1">>, kind |-> <<"Namespace">>],
        columns |-> <<
            [header |-> "Name", path |-> "$.metadata.name", type |-> "link"],
            [header |-> "Status", path |-> "$.status.phase", type |-> "status"],
            [header |-> "Age", path |-> "$.metadata.creationTimestamp", type |-> "age"]>>,
        actions |-> Undefined]]

NativeNode ==
    [key |-> <<"core", "/", "v1", "/", "Node">>,
     profile |->
       [gvk |-> [group |-> <<>>, version |-> <<"v1">>, kind |-> <<"Node">>],
        columns |-> <<
            [header |-> "Name", path |-> "$.metadata.name", type |-> "link"],
            [header |-> "Status", path |-> "$.status.conditions[?(@.type=='Ready')].status", type |-> "status"],
            [header |-> "Roles", path |-> "$.metadata.labels['kubernetes.io/role']", type |-> "text"],
            [header |-> "Version", path |-> "$.status.nodeInfo.kubeletVersion", type |-> "text"],
            [header |-> "Age", path |-> "$.metadata.creationTimestamp", type |-> "age"]>>,
        actions |-> Undefined]]

NativeStatefulSet ==
    [key |-> <<"apps", "/", "v1", "/", "StatefulSet">>,
     profile |->
       [gvk |-> [group |-> <<"apps">>, version |-> <<"v1">>, kind |-> <<"StatefulSet">>],
        columns |-> <<
            [header |-> "Name", path |-> "$.metadata.name", type |-> "link"],
            [header |-> "Namespace", path |-> "$.metadata.namespace", type |-> "text"],
            [header |-> "Ready", path |-> "$.status.readyReplicas", type |-> "text"],
            [header |-> "Replicas", path |-> "$.spec.replicas", type |-> "number"],
            [header |-> "Age", path |-> "$.metadata.creationTimestamp", type |-> "age"]>>,
        actions |-> Undefined]]

NativeDaemonSet ==
    [key |-> <<"apps", "/", "v1", "/", "DaemonSet">>,
     profile |->
       [gvk |-> [group |-> <<"apps">>, version |-> <<"v1">>, kind |-> <<"DaemonSet">>],
        columns |-> <<
            [header |-> "Name", path |-> "$.metadata.name", type |-> "link"],
            [header |-> "Namespace", path |-> "$.metadata.namespace", type |-> "text"],
            [header |-> "Desired", path |-> "$.status.desiredNumberScheduled", type |-> "number"],
            [header |-> "Current", path |-> "$.status.currentNumberScheduled", type |-> "number"],
            [header |-> "Ready", path |-> "$.status.numberReady", type |-> "number"],
            [header |-> "Age", path |-> "$.metadata.creationTimestamp", type |-> "age"]>>,
        actions |-> Undefined]]

NativeJob ==
    [key |-> <<"batch", "/", "v1", "/", "Job">>,
     profile |->
       [gvk |-> [group |-> <<"batch">>, version |-> <<"v1">>, kind |-> <<"Job">>],
        columns |-> <<
            [header |-> "Name", path |-> "$.metadata.name", type |-> "link"],
            [header |-> "Namespace", path |-> "$.metadata.namespace", type |-> "text"],
            [header |-> "Completions", path |-> "$.status.succeeded", type |-> "number"],
            [header |-> "Duration", path |-> "$.status.completionTime", type |-> "text"],
            [header |-> "Age", path |-> "$.metadata.creationTimestamp", type |-> "age"]>>,
        actions |-> Undefined]]

NativeCronJob ==
    [key |-> <<"batch", "/", "v1", "/", "CronJob">>,
     profile |->
       [gvk |-> [group |-> <<"batch">>, version |-> <<"v1">>, kind |-> <<"CronJob">>],
        columns |-> <<
            [header |-> "Name", path |-> "$.metadata.name", type |-> "link"],
            [header |-> "Namespace", path |-> "$.metadata.namespace", type |-> "text"],
            [header |-> "Schedule", path |-> "$.spec.schedule", type |-> "text"],
            [header |-> "Suspend", path |-> "$.spec.suspend", type |-> "boolean"],
            [header |-> "Active", path |-> "$.status.active.length", type |-> "number"],
            [header |-> "Last Schedule", path |-> "$.status.lastScheduleTime", type |-> "age"],
            [header |-> "Age", path |-> "$.metadata.creationTimestamp", type |-> "age"]>>,
        actions |-> Undefined]]

\* const NATIVE_PROFILES: the Map's entries in insertion order
NATIVE_PROFILES ==
    <<NativePod, NativeDeployment, NativeService, NativeIngress,
      NativeConfigMap, NativeSecret, NativeNamespace, NativeNode,
      NativeStatefulSet, NativeDaemonSet, NativeJob, NativeCronJob>>

Slash == <<"/">>
Core == <<"core">>

\* gvk.group || "core", then `${group}/${gvk.version}/${gvk.kind}`
getProfileKeyRaw(g) == g.group \o Slash \o g.version \o Slash \o g.kind
getProfileKey(g) ==
    LET group == IF g.group # <<>> THEN g.group ELSE Core
    IN group \o Slash \o g.version \o Slash \o g.kind

getGenericProfileWide(g) ==
    [gvk |-> g,
     columns |-> <<
        [header |-> "Name", path |-> "$.metadata.name", type |-> "link"],
        [header |-> "Namespace", path |-> "$.metadata.namespace", type |-> "text"],
        [header |-> "Status", path |-> "$.status.phase", type |-> "status"],
        [header |-> "Age", path |-> "$.metadata.creationTimestamp", type |-> "age"]>>,
     actions |-> Undefined]
getGenericProfile(g) ==
    [gvk |-> g,
     columns |-> <<
        [header |-> "Name", path |-> "$.metadata.name", type |-> "link"],
        [header |-> "Namespace", path |-> "$.metadata.namespace", type |-> "text"],
        [header |-> "Age", path |-> "$.metadata.creationTimestamp", type |-> "age"]>>,
     actions |-> Undefined]

\* NATIVE_PROFILES.get(key): the entry's value, or undefined
MapGet(map, key) ==
    IF \E i \in DOMAIN map : map[i].key = key
    THEN map[CHOOSE i \in DOMAIN map : map[i].key = key].profile
    ELSE Undefined

resolveResourceProfile(g) ==
    LET key == getProfileKey(g)
        nativeProfile == MapGet(NATIVE_PROFILES, key)
    IN IF nativeProfile # Undefined THEN nativeProfile ELSE getGenericProfile(g)

\* the identities resolved: the native ones and their near misses
Groups == {<<>>, <<"core">>, <<"apps">>, <<"batch">>, <<"networking.k8s.io">>,
           <<"example.com">>, <<"core", "/", "v1">>}
Versions == {<<"v1">>, <<"v1beta1">>, <<>>}
Kinds == {NATIVE_PROFILES[i].profile.gvk.kind : i \in DOMAIN NATIVE_PROFILES}
         \cup {<<"Widget">>, <<"pod">>}
Identities == [group : Groups, version : Versions, kind : Kinds]

InitProfile ==
    /\ gvk \in Identities
    /\ profileKey = <<>>
    /\ profile = Undefined
    /\ rawStatus = NoInput /\ statusClass = "" /\ statusIcon = ""
    /\ podResource = NoInput /\ podStatus = <<>>
    /\ ingresses = Undefined /\ services = Undefined /\ pods = Undefined
    /\ loadingIngress = TRUE /\ loadingService = TRUE /\ loadingPod = TRUE
    /\ DashIdle
    /\ dagre = "top" /\ fetchRound = [c \in Collections |-> 0]
    /\ CellIdle

\* a table or detail view resolves the profile of the selected resource type
Resolve ==
    /\ profile = Undefined
    /\ profileKey' = getProfileKey(gvk)
    /\ profile' = resolveResourceProfile(gvk)
    /\ UNCHANGED <<gvk, statusVars, dashVars, shellVars, cellVars, navVars>>

NextProfile == Resolve

SpecProfile == InitProfile /\ [][NextProfile]_vars

InTable(key) == \E i \in DOMAIN NATIVE_PROFILES : NATIVE_PROFILES[i].key = key
\* "{group or core}/{version}/{kind}"
NormalisedKey(g) ==
    (IF g.group = <<>> THEN <<"core">> ELSE g.group)
        \o <<"/">> \o g.version \o <<"/">> \o g.kind

C10_GroupNormalisation ==
    (profile # Undefined /\ gvk.group \in {<<>>, <<"core">>}) =>
        LET twin == [gvk EXCEPT !.group = IF gvk.group = <<>> THEN <<"core">> ELSE <<>>]
            other == resolveResourceProfile(twin)
        IN /\ profileKey = getProfileKey(twin)
           /\ profile.columns = other.columns
           /\ profile.actions = other.actions

\* C10 witness: {group: "", version: "v1", kind: "Pod"} was resolved to the
\* native Pod profile.
C10_Witness ==
    /\ profile # Undefined
    /\ gvk = [group |-> <<>>, version |-> <<"v1">>, kind |-> <<"Pod">>]
    /\ profile = NativePod.profile

Headers(p) == {p.columns[i].header : i \in DOMAIN p.columns}

\* C11: every profile resolveResourceProfile returns has a non-empty column
\* list with at least a Name, a Namespace and an Age column.
C11_NameNamespaceAge ==
    profile # Undefined =>
        /\ profile.columns # <<>>
        /\ {"Name", "Namespace", "Age"} \subseteq Headers(profile)

-----------------------------------------------------------------------------
(* Status classification *)

LowerCaseLetters ==
    <<"a", "b", "c", "d", "e", "f", "g", "h", "i", "j", "k", "l", "m",
      "n", "o", "p", "q", "r", "s", "t", "u", "v", "w", "x", "y", "z">>
UpperCaseLetters ==
    <<"A", "B", "C", "D", "E", "F", "G", "H", "I", "J", "K", "L", "M",
      "N", "O", "P", "Q", "R", "S", "T", "U", "V", "W", "X", "Y", "Z">>

\* the characters the regular expression class \s matches, of those used here
Whitespace == {" ", "\t"}

toLowerCaseChar(c) ==
    IF \E i \in DOMAIN UpperCaseLetters : UpperCaseLetters[i] = c
    THEN LowerCaseLetters[CHOOSE i \in DOMAIN UpperCaseLetters : UpperCaseLetters[i] = c]
    ELSE c
toUpperCaseChar(c) ==
    IF \E i \in DOMAIN LowerCaseLetters : LowerCaseLetters[i] = c
    THEN UpperCaseLetters[CHOOSE i \in DOMAIN LowerCaseLetters : LowerCaseLetters[i] = c]
    ELSE c
toLowerCase(str) == [i \in DOMAIN str |-> toLowerCaseChar(str[i])]
toUpperCase(str) == [i \in DOMAIN str |-> toUpperCaseChar(str[i])]

\* str.replace(/[\s-]/g, "")
StripSeparators(str) == SelectSeq(str, LAMBDA c : c \notin Whitespace \cup {"-"})

\* status?.toLowerCase().replace(/[\s-]/g, "") || ""
NormalizedCaseSensitive(status) ==
    IF status.kind = "string" THEN StripSeparators(status.s) ELSE <<>>
Normalized(status) ==
    IF status.kind = "string" THEN StripSeparators(toLowerCase(status.s)) ELSE <<>>

Includes(array, x) == \E i \in DOMAIN array : array[i] = x

HealthyList ==
    <<<<"r", "u", "n", "n", "i", "n", "g">>,
      <<"a", "c", "t", "i", "v", "e">>,
      <<"h", "e", "a", "l", "t", "h", "y">>,
      <<"r", "e", "a", "d", "y">>,
      <<"t", "r", "u", "e">>,
      <<"s", "u", "c", "c", "e", "e", "d", "e", "d">>>>
ClassPendingList ==
    <<<<"p", "e", "n", "d", "i", "n", "g">>,
      <<"p", "r", "o", "g", "r", "e", "s", "s", "i", "n", "g">>,
      <<"w", "a", "i", "t", "i", "n", "g">>,
      <<"c", "o", "n", "t", "a", "i", "n", "e", "r", "c", "r", "e", "a", "t", "i", "n", "g">>,
      <<"t", "e", "r", "m", "i", "n", "a", "t", "i", "n", "g">>>>
IconPendingList ==
    <<<<"p", "e", "n", "d", "i", "n", "g">>,
      <<"p", "r", "o", "g", "r", "e", "s", "s", "i", "n", "g">>,
      <<"w", "a", "i", "t", "i", "n", "g">>,
      <<"c", "o", "n", "t", "a", "i", "n", "e", "r", "c", "r", "e", "a", "t", "i", "n", "g">>>>
FailedList ==
    <<<<"f", "a", "i", "l", "e", "d">>,
      <<"e", "r", "r", "o", "r">>,
      <<"c", "r", "a", "s", "h", "l", "o", "o", "p", "b", "a", "c", "k", "o", "f", "f">>,
      <<"i", "m", "a", "g", "e", "p", "u", "l", "l", "b", "a", "c", "k", "o", "f", "f">>,
      <<"f", "a", "l", "s", "e">>,
      <<"t", "e", "r", "m", "i", "n", "a", "t", "e", "d">>,
      <<"e", "r", "r", "o", "r">>>>
TerminatingList ==
    <<<<"t", "e", "r", "m", "i", "n", "a", "t", "i", "n", "g">>>>

ClassOf(normalized) ==
    IF Includes(HealthyList, normalized) THEN "running"
    ELSE IF Includes(ClassPendingList, normalized) THEN "pending"
    ELSE IF Includes(FailedList, normalized) THEN "failed"
    ELSE IF Includes(TerminatingList, normalized) THEN "terminating"
    ELSE "unknown"
getStatusClass(status) == ClassOf(Normalized(status))

\* the glyphs are named: "check" is U+2713, "spinner" U+27F3, "cross" U+2715,
\* "paused" U+23F8
IconOf(normalized) ==
    IF Includes(HealthyList, normalized) THEN "check"
    ELSE IF Includes(IconPendingList, normalized) THEN "spinner"
    ELSE IF Includes(FailedList, normalized) THEN "cross"
    ELSE IF Includes(TerminatingList, normalized) THEN "paused"
    ELSE "?"
getStatusIcon(status) == IconOf(Normalized(status))

\* String.prototype.trim
RECURSIVE TrimStart(_)
TrimStart(str) ==
    IF str # <<>> /\ Head(str) \in Whitespace THEN TrimStart(Tail(str)) ELSE str
RECURSIVE TrimEnd(_)
TrimEnd(str) ==
    IF str # <<>> /\ str[Len(str)] \in Whitespace
    THEN TrimEnd(SubSeq(str, 1, Len(str) - 1)) ELSE str
Trim(str) == TrimEnd(TrimStart(str))

\* String(value) of a string, and of the "" that replaces a falsy value
StringOf(v) == IF v.kind = "string" THEN v.s ELSE <<>>

Terminating == <<"T", "e", "r", "m", "i", "n", "a", "t", "i", "n", "g">>
Unknown == <<"U", "n", "k", "n", "o", "w", "n">>

\* resource.metadata / resource.status of a record, metadata?.deletionTimestamp
\* and status?.phase
Member(obj, field) ==
    IF obj.kind = "map" /\ field \in DOMAIN obj.m THEN obj.m[field] ELSE Undefined

getPodStatusNoDeletion(resource) ==
    IF ~Truthy(resource) THEN Unknown
    ELSE LET status == Member(resource, "status")
             raw == Member(status, "phase")
             phase == Trim(StringOf(IF Truthy(raw) THEN raw ELSE Str(<<>>)))
         IN IF phase # <<>>
            THEN <<toUpperCaseChar(phase[1])>> \o toLowerCase(Tail(phase))
            ELSE Unknown
getPodStatus(resource) ==
    IF ~Truthy(resource) THEN Unknown
    ELSE LET metadata == Member(resource, "metadata")
             status == Member(resource, "status")
             raw == Member(status, "phase")
             phase == Trim(StringOf(IF Truthy(raw) THEN raw ELSE Str(<<>>)))
         IN IF Truthy(Member(metadata, "deletionTimestamp")) THEN Terminating
            ELSE IF phase # <<>>
            THEN <<toUpperCaseChar(phase[1])>> \o toLowerCase(Tail(phase))
            ELSE Unknown

-----------------------------------------------------------------------------
(* Cell formatting: formatValue and formatAge.  Text is a sequence of          *)
(* characters; a timestamp is a string together with the time (ms) that new   *)
(* Date gives for it.                                                          *)

DigitChars == <<"0", "1", "2", "3", "4", "5", "6", "7", "8", "9">>
RECURSIVE Digits(_)
Digits(n) ==
    IF n < 10 THEN <<DigitChars[n + 1]>>
    ELSE Digits(n \div 10) \o <<DigitChars[(n % 10) + 1]>>
\* String(n) of an integer
NumberToString(n) == IF n < 0 THEN <<"-">> \o Digits(0 - n) ELSE Digits(n)

\* String(value); Array.prototype.join(separator)
RECURSIVE String(_)
RECURSIVE Join(_, _)
String(v) ==
    CASE v.kind = "undefined" -> <<"u", "n", "d", "e", "f", "i", "n", "e", "d">>
      [] v.kind = "null" -> <<"n", "u", "l", "l">>
      [] v.kind = "number" -> NumberToString(v.n)
      [] v.kind = "boolean" ->
            IF v.b THEN <<"t", "r", "u", "e">> ELSE <<"f", "a", "l", "s", "e">>
      [] v.kind = "string" -> v.s
      [] v.kind = "array" -> Join(v.items, <<",">>)
      [] OTHER -> <<"[", "o", "b", "j", "e", "c", "t", " ", "O", "b", "j", "e", "c", "t", "]">>
Join(items, separator) ==
    IF items = <<>> THEN <<>>
    ELSE (IF Head(items).kind \in {"undefined", "null"} THEN <<>> ELSE String(Head(items)))
         \o (IF Len(items) = 1 THEN <<>> ELSE separator \o Join(Tail(items), separator))

\* a timestamp string that new Date parses to ms
Timestamp(text, ms) == [kind |-> "string", s |-> text, ms |-> ms]
IsValidDate(v) == v.kind = "string" /\ "ms" \in DOMAIN v

\* the four returns of formatAge
AgeText(diffSecs, diffMins, diffHours, diffDays) ==
    IF diffDays > 0 THEN NumberToString(diffDays) \o <<"d">>
    ELSE IF diffHours > 0 THEN NumberToString(diffHours) \o <<"h">>
    ELSE IF diffMins > 0 THEN NumberToString(diffMins) \o <<"m">>
    ELSE NumberToString(diffSecs) \o <<"s">>
AgeOfSecondsInMinutes(diffSecs) == AgeText(diffSecs, diffSecs \div 60, 0, 0)
AgeOfSeconds(diffSecs) ==
    AgeText(diffSecs, diffSecs \div 60, (diffSecs \div 60) \div 60,
            ((diffSecs \div 60) \div 60) \div 24)
formatAge(timestamp, clock) ==
    IF ~Truthy(timestamp) THEN <<"-">>
    ELSE IF ~IsValidDate(timestamp) THEN <<"N", "a", "N", "s">>
    ELSE AgeOfSeconds((clock - timestamp.ms) \div 1000)

ObjectKeysLength(v) ==
    IF v.kind = "array" THEN Len(v.items) ELSE Cardinality(DOMAIN v.m)

formatValueTypeFirst(v, type, clock) ==
    IF type = "number" /\ v.kind \in {"undefined", "null"} THEN <<"0">>
    ELSE IF v.kind \in {"undefined", "null"} THEN <<"-">>
    ELSE String(v)
formatValue(v, type, clock) ==
    IF v.kind \in {"undefined", "null"} THEN <<"-">>
    ELSE CASE type = "age" -> formatAge(v, clock)
           [] type = "pod-enhanced-status" -> <<getStatusIcon(Str(getPodStatus(v)))>>
           [] type = "status" -> <<getStatusIcon(Str(String(v)))>>
           [] type = "list" ->
                IF v.kind = "array" THEN Join(v.items, <<",", " ">>) ELSE String(v)
           [] type = "boolean" ->
                IF Truthy(v) THEN <<"Y", "e", "s">> ELSE <<"N", "o">>
           [] type = "number" -> String(v)
           [] OTHER ->
                IF v.kind \in {"map", "array"}
                THEN NumberToString(ObjectKeysLength(v)) \o <<" ", "i", "t", "e", "m", "s">>
                ELSE String(v)

-----------------------------------------------------------------------------
(* Value extraction: extractValue.  A path is the sequence of its segments     *)
(* after "$": a child key, an array index, or text the evaluator cannot read.  *)

Key(k) == [key |-> k]
Index(i) == [index |-> i]
Unreadable == [unreadable |-> TRUE]

\* the values a path of child keys and indices selects in a document: at most
\* one, none when a key is missing, an index is out of range or the value at
\* hand is no map or array
RECURSIVE Select(_, _)
Select(v, segments) ==
    IF segments = <<>> THEN <<v>>
    ELSE IF "key" \in DOMAIN Head(segments)
    THEN IF v.kind = "map" /\ Head(segments).key \in DOMAIN v.m
         THEN Select(v.m[Head(segments).key], Tail(segments))
         ELSE <<>>
    ELSE IF v.kind = "array" /\ Head(segments).index + 1 \in DOMAIN v.items
         THEN Select(v.items[Head(segments).index + 1], Tail(segments))
         ELSE <<>>

Thrown == [kind |-> "throw"]
Selected(items) == [kind |-> "selected", items |-> items]

\* what the evaluator can do with a path: select the values of a path it can
\* read; throw, or select nothing, for one it cannot
Evaluations(v, segments) ==
    IF \E i \in DOMAIN segments : "unreadable" \in DOMAIN segments[i]
    THEN {Thrown, Selected(<<>>)}
    ELSE {Selected(Select(v, segments))}

\* JSONPath({ path, json, wrap }) for what the evaluator selected
JSONPath(selected, wrap) ==
    IF wrap THEN Arr(selected)
    ELSE IF selected = <<>> THEN Undefined
    ELSE IF Len(selected) = 1 THEN selected[1]
    ELSE Arr(selected)

\* the call ending in an exception that reaches the caller
Raised == [kind |-> "raised"]
extractValueUncaught(evaluation) ==
    IF evaluation.kind = "throw" THEN Raised ELSE JSONPath(evaluation.items, FALSE)
\* try { return JSONPath({ path, json: resource, wrap: false }) } catch { return undefined }
extractValue(evaluation) ==
    IF evaluation.kind = "throw" THEN Undefined ELSE JSONPath(evaluation.items, FALSE)

-----------------------------------------------------------------------------
(* Status classification: the inputs and the calls *)

InsertAt(str, k, c) == SubSeq(str, 1, k) \o <<c>> \o SubSeq(str, k + 1, Len(str))
Capitalised(str) ==
    IF str = <<>> THEN str ELSE <<toUpperCaseChar(str[1])>> \o Tail(str)

\* str with the characters of ins inserted, each at its position (or at the
\* end when the string is shorter)
RECURSIVE Decorated(_, _)
Decorated(str, ins) ==
    IF ins = <<>> THEN str
    ELSE Decorated(
            InsertAt(str, IF Head(ins)[1] <= Len(str) THEN Head(ins)[1] ELSE Len(str),
                     Head(ins)[2]),
            Tail(ins))
Insertions(C, n) == UNION {[1..m -> (0..17) \X C] : m \in 0..n}

StatusWords ==
    Range(HealthyList) \cup Range(ClassPendingList) \cup Range(FailedList)
    \cup {<<>>, <<"u", "n", "k", "n", "o", "w", "n">>, <<"e", "v", "i", "c", "t", "e", "d">>,
          <<"c", "o", "m", "p", "l", "e", "t", "e", "d">>}

\* the words in lower, capitalised and upper case and in the API's spelling
StatusSpellings ==
    UNION {{w, Capitalised(w), toUpperCase(w)} : w \in StatusWords}
    \cup {<<"C", "r", "a", "s", "h", "L", "o", "o", "p", "B", "a", "c", "k", "O", "f", "f">>,
          <<"C", "o", "n", "t", "a", "i", "n", "e", "r", "C", "r", "e", "a", "t", "i", "n", "g">>,
          <<"I", "m", "a", "g", "e", "P", "u", "l", "l", "B", "a", "c", "k", "O", "f", "f">>}
\* separators, and a character that is none
Inserted == {" ", "\t", "-", "_"}

PhaseInputs ==
    {Undefined, Null, Str(<<>>), Str(<<" ">>), Str(<<" ", "\t">>),
     Str(<<"R", "u", "n", "n", "i", "n", "g">>), Str(<<"r", "u", "n", "n", "i", "n", "g">>),
     Str(<<"P", "E", "N", "D", "I", "N", "G">>), Str(<<"s", "U", "C", "C", "E", "E", "D", "E", "D">>),
     Str(<<" ", "F", "a", "i", "l", "e", "d">>), Str(<<"f", "a", "i", "l", "e", "d", "\t", " ">>),
     Str(<<"T", "e", "r", "m", "i", "n", "a", "t", "i", "n", "g">>), Str(<<"r">>)}
DeletionInputs == {Undefined, Null, Str(<<"2", "0", "2", "6">>)}

\* pod records: metadata and status absent or present; phase absent, null or
\* a string
PodInputs ==
    {Undefined, Null} \cup
    {Obj([f \in {"metadata", "status"} |-> IF f = "metadata" THEN md ELSE st]) :
        md \in {Undefined} \cup {Obj([f \in {"deletionTimestamp"} |-> d]) : d \in DeletionInputs},
        st \in {Undefined} \cup {Obj([f \in {"phase"} |-> ph]) : ph \in PhaseInputs}}

InitStatus ==
    /\ \/ /\ \/ rawStatus \in {Undefined, Null}
             \/ \E str \in StatusSpellings, ins \in Insertions(Inserted, MaxInserted) :
                    rawStatus = Str(Decorated(str, ins))
          /\ podResource = NoInput
       \/ rawStatus = NoInput /\ podResource \in PodInputs
    /\ statusClass = "" /\ statusIcon = "" /\ podStatus = <<>>
    /\ gvk = Undefined /\ profileKey = <<>> /\ profile = Undefined
    /\ ingresses = Undefined /\ services = Undefined /\ pods = Undefined
    /\ loadingIngress = TRUE /\ loadingService = TRUE /\ loadingPod = TRUE
    /\ DashIdle
    /\ dagre = "top" /\ fetchRound = [c \in Collections |-> 0]
    /\ CellIdle

\* getStatusClass(status) and getStatusIcon(status) of one raw status
Classify ==
    /\ rawStatus # NoInput
    /\ statusClass = ""
    /\ statusClass' = getStatusClass(rawStatus)
    /\ statusIcon' = getStatusIcon(rawStatus)
    /\ UNCHANGED <<rawStatus, podResource, podStatus, profileVars, dashVars, shellVars, cellVars, navVars>>

\* getPodStatus(resource), and the icon formatValue(resource,
\* "pod-enhanced-status") shows for it
PodStatus ==
    /\ podResource # NoInput
    /\ podStatus = <<>>
    /\ podStatus' = getPodStatus(podResource)
    /\ statusIcon' = IF podResource \in {Undefined, Null} THEN "-"
                     ELSE getStatusIcon(Str(getPodStatus(podResource)))
    /\ UNCHANGED <<rawStatus, podResource, statusClass, profileVars, dashVars, shellVars, cellVars, navVars>>

NextStatus == Classify \/ PodStatus

SpecStatus == InitStatus /\ [][NextStatus]_vars

-----------------------------------------------------------------------------
(* Status classification: properties *)

\* lower-cased, with whitespace and hyphens removed
NormalForm(v) ==
    IF v.kind # "string" THEN <<>>
    ELSE LET kept == SelectSeq(v.s, LAMBDA c : c \notin {" ", "\t", "-"})
         IN [i \in DOMAIN kept |-> toLowerCaseChar(kept[i])]

WordTerminating == <<"t", "e", "r", "m", "i", "n", "a", "t", "i", "n", "g">>
HealthyWords ==
    {<<"r", "u", "n", "n", "i", "n", "g">>,
     <<"a", "c", "t", "i", "v", "e">>,
     <<"h", "e", "a", "l", "t", "h", "y">>,
     <<"r", "e", "a", "d", "y">>,
     <<"t", "r", "u", "e">>,
     <<"s", "u", "c", "c", "e", "e", "d", "e", "d">>}
PendingWords ==
    {<<"p", "e", "n", "d", "i", "n", "g">>,
     <<"p", "r", "o", "g", "r", "e", "s", "s", "i", "n", "g">>,
     <<"w", "a", "i", "t", "i", "n", "g">>,
     <<"c", "o", "n", "t", "a", "i", "n", "e", "r", "c", "r", "e", "a", "t", "i", "n", "g">>}
FailedWords ==
    {<<"f", "a", "i", "l", "e", "d">>,
     <<"e", "r", "r", "o", "r">>,
     <<"c", "r", "a", "s", "h", "l", "o", "o", "p", "b", "a", "c", "k", "o", "f", "f">>,
     <<"i", "m", "a", "g", "e", "p", "u", "l", "l", "b", "a", "c", "k", "o", "f", "f">>,
     <<"f", "a", "l", "s", "e">>,
     <<"t", "e", "r", "m", "i", "n", "a", "t", "e", "d">>}

Classified == rawStatus # NoInput /\ statusClass # ""

\* C6: a status that normalises to "terminating" gets the paused glyph and
\* the terminating class, never the pending ones.
C6_TerminatingWins ==
    (Classified /\ NormalForm(rawStatus) = WordTerminating) =>
        statusIcon = "paused" /\ statusClass = "terminating"

CategoryOf(n) ==
    CASE n \in HealthyWords -> <<"running", "check">>
      [] n \in PendingWords -> <<"pending", "spinner">>
      [] n \in FailedWords -> <<"failed", "cross">>
      [] OTHER -> <<"unknown", "?">>

\* C7 as claimed: class and glyph are those of the normal form's category,
\* and every string outside the three word lists is unknown with "?".
C7_FourCategories ==
    Classified => <<statusClass, statusIcon>> = CategoryOf(NormalForm(rawStatus))

\* C7 as amended: the same for every status that does not normalise to
\* "terminating".
C7_FourCategoriesButTerminating ==
    (Classified /\ NormalForm(rawStatus) # WordTerminating) =>
        <<statusClass, statusIcon>> = CategoryOf(NormalForm(rawStatus))

\* C7 witness: "CrashLoopBackOff" classified failed with the cross.
C7_Witness ==
    /\ Classified
    /\ rawStatus = Str(<<"C", "r", "a", "s", "h", "L", "o", "o", "p", "B", "a", "c", "k", "O", "f", "f">>)
    /\ statusClass = "failed" /\ statusIcon = "cross"
HasDeletionMarker(r) ==
    /\ r.kind = "map"
    /\ r.m["metadata"].kind = "map"
    /\ r.m["metadata"].m["deletionTimestamp"].kind = "string"
PhaseOf(r) ==
    IF r.kind = "map" /\ r.m["status"].kind = "map"
          /\ r.m["status"].m["phase"].kind = "string"
    THEN r.m["status"].m["phase"].s
    ELSE <<>>
CapitalisedLower(str) ==
    [i \in DOMAIN str |-> IF i = 1 THEN toUpperCaseChar(str[i]) ELSE toLowerCaseChar(str[i])]
Trimmed(str) ==
    LET keep == {i \in DOMAIN str : str[i] \notin {" ", "\t"}}
    IN IF keep = {} THEN <<>>
       ELSE SubSeq(str, CHOOSE i \in keep : \A j \in keep : i <= j,
                        CHOOSE i \in keep : \A j \in keep : i >= j)
PodStatusDone == podResource # NoInput /\ podStatus # <<>>

\* C8 as claimed: "Terminating" with a deletion marker; otherwise the phase,
\* first letter upper-cased and the rest lower-cased; "Unknown" for an empty
\* or absent phase or an absent record.
C8_PodStatus ==
    PodStatusDone =>
        podStatus = IF HasDeletionMarker(podResource) THEN Terminating
                    ELSE IF PhaseOf(podResource) # <<>>
                    THEN CapitalisedLower(PhaseOf(podResource))
                    ELSE Unknown

\* C8 as amended: the phase is first trimmed of surrounding whitespace, and a
\* phase of whitespace only is "Unknown" too.
C8_PodStatusTrimmed ==
    PodStatusDone =>
        podStatus = IF HasDeletionMarker(podResource) THEN Terminating
                    ELSE IF Trimmed(PhaseOf(podResource)) # <<>>
                    THEN CapitalisedLower(Trimmed(PhaseOf(podResource)))
                    ELSE Unknown

\* C8 witness: a record with a deletion marker and phase "Running" is
\* "Terminating".
C8_Witness ==
    /\ PodStatusDone
    /\ HasDeletionMarker(podResource)
    /\ PhaseOf(podResource) = <<"R", "u", "n", "n", "i", "n", "g">>
    /\ podStatus = Terminating
    /\ statusIcon = "paused"

-----------------------------------------------------------------------------
(* Table cells: the inputs and the calls *)

ColumnTypes ==
    {"text", "link", "age", "status", "pod-enhanced-status", "list", "boolean",
     "number", "container-statuses"}

\* ages in seconds around the multiples of a second, a minute, an hour and a day
AgeSeconds ==
    UNION {{k * u - 1, k * u, k * u + 1} : k \in 0..MaxUnits, u \in {1, 60, 3600, 86400}}
\* the clock, on a whole second and late in one
Clocks == {86400 * 1000 * (MaxUnits + 2), 86400 * 1000 * (MaxUnits + 2) + 999}
Timestamps ==
    {Timestamp(<<"T", "-">> \o NumberToString(d), 86400 * 1000 * (MaxUnits + 2) - d * 1000)
        : d \in AgeSeconds}

CellValues ==
    {Undefined, Null, Num(0), Num(7), Num(0 - 3), Bool(TRUE), Bool(FALSE),
     Str(<<>>), Str(<<"0">>), Str(<<"R", "u", "n", "n", "i", "n", "g">>),
     Str(<<"n", "o", "t", " ", "a", " ", "d", "a", "t", "e">>),
     Arr(<<>>), Arr(<<X, Num(1), Null>>), AppX, EmptyMap}
    \cup {r \in PodInputs : r.kind = "map" /\ r.m["status"].kind = "map"
                            /\ r.m["status"].m["phase"] = Str(<<"r", "u", "n", "n", "i", "n", "g">>)}

\* a record as the API returns it
Record ==
    Obj([f \in {"metadata", "spec", "status"} |->
        CASE f = "metadata" ->
                Obj([g \in {"name", "labels"} |-> IF g = "name" THEN Str(NameC) ELSE AppX])
          [] f = "spec" ->
                Obj([g \in {"containers", "replicas"} |->
                    IF g = "containers"
                    THEN Arr(<<Obj([h \in {"name"} |-> X]), Obj([h \in {"name"} |-> Y])>>)
                    ELSE Num(0)])
          [] OTHER -> Null])
Segments ==
    {Key("metadata"), Key("name"), Key("spec"), Key("containers"), Key("replicas"),
     Key("status"), Key("missing"), Index(0), Index(2), Unreadable}
Paths == UNION {[1..n -> Segments] : n \in 0..MaxPathLen}

InitCell ==
    /\ \/ /\ \/ value \in CellValues /\ colType \in ColumnTypes
             \/ value \in Timestamps /\ colType = "age"
          /\ now \in Clocks
          /\ json = NoInput /\ path = <<>> /\ outcome = NoInput
       \/ /\ json \in {Record, Null, Undefined}
          /\ path \in Paths
          /\ outcome \in Evaluations(json, path)
          /\ value = NoInput /\ colType = "" /\ now = 0
    /\ formatted = <<>> /\ result = NoInput
    /\ rawStatus = NoInput /\ statusClass = "" /\ statusIcon = ""
    /\ podResource = NoInput /\ podStatus = <<>>
    /\ gvk = Undefined /\ profileKey = <<>> /\ profile = Undefined
    /\ ingresses = Undefined /\ services = Undefined /\ pods = Undefined
    /\ loadingIngress = TRUE /\ loadingService = TRUE /\ loadingPod = TRUE
    /\ DashIdle
    /\ dagre = "top" /\ fetchRound = [c \in Collections |-> 0]

\* formatValue(value, col.type) for a cell
Format ==
    /\ value # NoInput
    /\ formatted = <<>>
    /\ formatted' = formatValue(value, colType, now)
    /\ UNCHANGED <<value, colType, now, extractVars, statusVars, profileVars, dashVars, shellVars, navVars>>

\* extractValue(row, col.path) for a cell
Extract ==
    /\ json # NoInput
    /\ result = NoInput
    /\ result' = extractValue(outcome)
    /\ UNCHANGED <<json, path, outcome, formatVars, statusVars, profileVars, dashVars, shellVars, navVars>>

NextCell == Format \/ Extract

SpecCell == InitCell /\ [][NextCell]_vars

-----------------------------------------------------------------------------
(* Table cells: properties *)

Formatted == value # NoInput /\ formatted # <<>>

\* C12: an undefined or null value is formatted "-" under every column type,
\* and the number 0 under the number type is formatted "0".
C12_AbsentIsDash ==
    Formatted =>
        /\ value \in {Undefined, Null} => formatted = <<"-">>
        /\ (value = Num(0) /\ colType = "number") => formatted = <<"0">>

\* C12 witness: undefined under the number type was formatted "-".
C12_Witness ==
    Formatted /\ value = Undefined /\ colType = "number" /\ formatted = <<"-">>

\* now minus timestamp, in whole seconds
AgeOf(v) == (now - v.ms) \div 1000

\* C13: an age of d whole seconds is rendered in the single largest unit:
\* floor(d/86400) days if d >= 86400, else floor(d/3600) hours if d >= 3600,
\* else floor(d/60) minutes if d >= 60, else d seconds.
C13_LargestUnit ==
    (Formatted /\ colType = "age" /\ IsValidDate(value)) =>
        formatted =
            IF AgeOf(value) >= 86400 THEN NumberToString(AgeOf(value) \div 86400) \o <<"d">>
            ELSE IF AgeOf(value) >= 3600 THEN NumberToString(AgeOf(value) \div 3600) \o <<"h">>
            ELSE IF AgeOf(value) >= 60 THEN NumberToString(AgeOf(value) \div 60) \o <<"m">>
            ELSE NumberToString(AgeOf(value)) \o <<"s">>

\* C13 witness: a timestamp 3599 seconds old was rendered "59m".
C13_Witness ==
    /\ Formatted /\ colType = "age" /\ IsValidDate(value)
    /\ AgeOf(value) = 3599
    /\ formatted = <<"5", "9", "m">>

Extracted == json # NoInput /\ result # NoInput
Resolves == outcome.kind = "selected" /\ outcome.items # <<>>

\* C14: extractValue returns for every document and path; it returns undefined
\* when the path does not resolve (nothing selected, or the evaluator threw);
\* and the document is left as it was.
C14_NeverRaises ==
    /\ [](Extracted => (result # Raised /\ (~Resolves => result = Undefined)))
    /\ [][json' = json]_vars

\* C14 witness: a path the evaluator threw on was extracted as undefined.
C14_Witness ==
    Extracted /\ json = Record /\ outcome = Thrown /\ result = Undefined

-----------------------------------------------------------------------------
(* Deleting a resource: the query cache behind useResources and useResource,   *)
(* and the useDeleteResource mutation.  A record is its metadata; a namespace   *)
(* of "" is an absent (falsy) one.  A list query is known by the namespace     *)
(* member of its key, "" for the key without one: a member that is undefined   *)
(* does not count in the hash of a key.                                        *)

Resource(name, ns) == [name |-> name, namespace |-> ns]

NamespacedResources == {Resource("x", "a"), Resource("x", "b"), Resource("y", "a")}
ClusterResources == {Resource("x", ""), Resource("y", "")}
AllResources == NamespacedResources \cup ClusterResources
ListOrder ==
    <<Resource("x", ""), Resource("y", ""),
      Resource("x", "a"), Resource("y", "a"), Resource("x", "b")>>
ListKeys == {"", "a", "b"}
Filters == {"all", "a", "b"}

\* Client.ListResources: the records of one namespace, or of all of them when
\* the namespace is empty, in the order the API server lists them
ListResources(ns, records) ==
    Arr(SelectSeq(ListOrder, LAMBDA r : r \in records /\ (ns = "" \/ r.namespace = ns)))

\* the namespace member of the ResourceTable's params
params(filter) == IF filter = "all" THEN "" ELSE filter

\* the namespace member of the delete's listQueryKey: params.namespace || undefined
listQueryKey(variables) == variables.namespace

\* a query nobody has asked for
NoQuery == [data |-> Undefined, fetch |-> NoInput]

\* a fetch of the list query of key k starts: its result is what the cluster
\* holds now
Fetching(q, k, records) == [q EXCEPT ![k].fetch = ListResources(k, records)]

\* cancelQueries({queryKey: ["resources"]}): the result of a fetch in flight is
\* dropped
cancelQueries(q) == [k \in DOMAIN q |-> [q[k] EXCEPT !.fetch = NoInput]]

\* the filter of the optimistic update: TRUE for a record that is kept
Kept(resource, variables) ==
    IF resource.name # variables.name THEN TRUE
    ELSE IF variables.namespace = "" /\ resource.namespace = "" THEN FALSE
    ELSE resource.namespace # variables.namespace

\* the updater onMutate hands to setQueryData
Updater(old, variables) ==
    IF old = Undefined THEN old
    ELSE Arr(SelectSeq(old.items, LAMBDA r : Kept(r, variables)))

\* onMutate: what it leaves in the cache and the context it returns
onMutate(cache, variables) ==
    LET key == listQueryKey(variables)
        cancelled == cancelQueries(cache.resources)
        previousResources == cancelled[key].data
        previousResource == cache.resource[variables]
    IN  [resources |-> [cancelled EXCEPT ![key].data = Updater(@, variables)],
         resource |-> [cache.resource EXCEPT ![variables] = Undefined],
         context |->
             [previousResources |->
                  IF previousResources # Undefined
                  THEN <<[queryKey |-> key, queryData |-> previousResources]>>
                  ELSE <<>>,
              previousResource |-> previousResource]]

RECURSIVE Restored(_, _)
\* context.previousResources.forEach(setQueryData)
Restored(q, previous) ==
    IF previous = <<>> THEN q
    ELSE Restored([q EXCEPT ![Head(previous).queryKey].data = Head(previous).queryData],
                  Tail(previous))

\* an onError that restores the lists only
onErrorListsOnly(cache, variables, context) ==
    [resources |-> Restored(cache.resources, context.previousResources),
     resource |-> cache.resource]

\* onError: the roll back
onError(cache, variables, context) ==
    [resources |-> Restored(cache.resources, context.previousResources),
     resource |->
         IF context.previousResource # Undefined
         THEN [cache.resource EXCEPT ![variables] = context.previousResource]
         ELSE cache.resource]

\* onSettled up to its setTimeout: invalidateQueries and refetchQueries of type
\* "active" start a new fetch of the list the table is observing
onSettled(q, filter, records) == Fetching(cancelQueries(q), params(filter), records)

\* the refetchQueries of the timeout: every list query that holds data or is
\* being fetched is fetched anew
Refetched(q, records) ==
    [k \in DOMAIN q |->
        IF q[k] = NoQuery THEN q[k] ELSE [q[k] EXCEPT !.fetch = ListResources(k, records)]]

Cache == [resources |-> queries, resource |-> resourceQueries]

\* a ResourceTable showing a loaded list; lists of other namespaces may be
\* cached from earlier views
InitDelete ==
    /\ server \in (SUBSET NamespacedResources \cup SUBSET ClusterResources) \ {{}}
    /\ namespace \in Filters
    /\ \E cached \in SUBSET ListKeys :
           queries = [k \in ListKeys |->
                         IF k = params(namespace) \/ k \in cached
                         THEN [data |-> ListResources(k, server), fetch |-> NoInput]
                         ELSE NoQuery]
    /\ resourceQueries = [r \in AllResources |-> Undefined]
    /\ mutation = [status |-> "idle", variables |-> NoInput, context |-> NoInput,
                   submittedAt |-> 0]
    /\ timer = FALSE
    /\ AppIdle /\ OtherIdle
    /\ DashOff
    /\ Idle

\* the namespace selector: the table observes another list query, which is
\* fetched on mount unless a fetch of it is in flight
SetNamespace ==
    /\ \E filter \in Filters \ {namespace} :
           /\ namespace' = filter
           /\ queries' = IF queries[params(filter)].fetch # NoInput THEN queries
                         ELSE Fetching(queries, params(filter), server)
    /\ UNCHANGED <<server, resourceQueries, mutation, timer>>
    /\ UNCHANGED <<dashVars, statusVars, profileVars, cellVars, navVars, appVars, otherVars>>

\* refetchInterval: the list the table observes is fetched again
Poll ==
    /\ queries[params(namespace)].fetch = NoInput
    /\ queries' = Fetching(queries, params(namespace), server)
    /\ UNCHANGED <<server, namespace, resourceQueries, mutation, timer>>
    /\ UNCHANGED <<dashVars, statusVars, profileVars, cellVars, navVars, appVars, otherVars>>

\* the result of a fetch arrives and is written to the cache
Deliver ==
    /\ \E k \in ListKeys :
           /\ queries[k].fetch # NoInput
           /\ queries' = [queries EXCEPT ![k] = [data |-> @.fetch, fetch |-> NoInput]]
    /\ UNCHANGED <<server, namespace, resourceQueries, mutation, timer>>
    /\ UNCHANGED <<dashVars, statusVars, profileVars, cellVars, navVars, appVars, otherVars>>

\* the detail of a listed record is shown, the first or after a delete removed
\* the query of the one before: useResource with the row as initialData
ShowDetail ==
    /\ \A r \in AllResources : resourceQueries[r] = Undefined
    /\ \E r \in Range(Items(queries[params(namespace)].data)) :
           /\ resourceQueries' = [resourceQueries EXCEPT ![r] = r]
    /\ UNCHANGED <<server, namespace, queries, mutation, timer>>
    /\ UNCHANGED <<dashVars, statusVars, profileVars, cellVars, navVars, appVars, otherVars>>

\* mutate(variables) for a record the table lists: onMutate runs and the call
\* of DeleteResource goes out (submittedAt counts the calls of mutate)
Mutate ==
    /\ mutation.status # "pending"
    /\ mutation.submittedAt < MaxDeletes
    /\ \E r \in Range(Items(queries[params(namespace)].data)) :
           LET after == onMutate(Cache, r)
           IN  /\ queries' = after.resources
               /\ resourceQueries' = after.resource
               /\ mutation' = [status |-> "pending", variables |-> r,
                               context |-> after.context,
                               submittedAt |-> mutation.submittedAt + 1]
    /\ UNCHANGED <<server, namespace, timer>>
    /\ UNCHANGED <<dashVars, statusVars, profileVars, cellVars, navVars, appVars, otherVars>>

\* DeleteResource returns: the record is gone from the cluster; onSettled
Succeed ==
    /\ mutation.status = "pending"
    /\ server' = server \ {mutation.variables}
    /\ queries' = onSettled(queries, namespace, server')
    /\ mutation' = [mutation EXCEPT !.status = "success"]
    /\ timer' = TRUE
    /\ UNCHANGED <<namespace, resourceQueries>>
    /\ UNCHANGED <<dashVars, statusVars, profileVars, cellVars, navVars, appVars, otherVars>>

\* DeleteResource fails: onError, then onSettled
Fail ==
    /\ mutation.status = "pending"
    /\ LET after == onError(Cache, mutation.variables, mutation.context)
       IN  /\ queries' = onSettled(after.resources, namespace, server)
           /\ resourceQueries' = after.resource
    /\ mutation' = [mutation EXCEPT !.status = "error"]
    /\ timer' = TRUE
    /\ UNCHANGED <<server, namespace>>
    /\ UNCHANGED <<dashVars, statusVars, profileVars, cellVars, navVars, appVars, otherVars>>

\* the timeout onSettled set, 100 ms later
Timeout ==
    /\ timer
    /\ queries' = Refetched(queries, server)
    /\ timer' = FALSE
    /\ UNCHANGED <<server, namespace, resourceQueries, mutation>>
    /\ UNCHANGED <<dashVars, statusVars, profileVars, cellVars, navVars, appVars, otherVars>>

NextDelete ==
    \/ SetNamespace
    \/ Poll
    \/ Deliver
    \/ ShowDetail
    \/ Mutate
    \/ Succeed
    \/ Fail
    \/ Timeout

SpecDelete == InitDelete /\ [][NextDelete]_vars

-----------------------------------------------------------------------------
(* App: the selection state and the handlers that change it.  The table of   *)
(* the selected kind lists the cluster's records under the namespace filter. *)

ApiResources == {ResourceInfo("Pod"), ResourceInfo("Service")}
Names == {"x", "y"}
Namespaces == {"", "a", "b"}

\* the rows of the ResourceTable
Rows == Items(ListResources(params(namespace), server))

\* <ResourceDetail> is rendered
DetailShown ==
    /\ detailPanelOpen
    /\ selectedResource # Null

\* <ResourceTable> is rendered
TableShown == currentView = "resources" /\ selectedResource # Null

\* App mounted: nothing selected, the panel open as the screen size has it
InitApp ==
    /\ currentView = "resources"
    /\ selectedResource = Null /\ selectedDetail = Null
    /\ isLargeScreen \in BOOLEAN
    /\ detailPanelOpen = isLargeScreen
    /\ clicked = NoInput /\ navigated = <<>>
    /\ server \in (SUBSET NamespacedResources \cup SUBSET ClusterResources) \ {{}}
    /\ namespace \in Filters
    /\ queries = <<>> /\ resourceQueries = <<>>
    /\ mutation = NoInput /\ timer = FALSE
    /\ ingresses = Undefined /\ services = Undefined /\ pods = Undefined
    /\ loadingIngress = TRUE /\ loadingService = TRUE /\ loadingPod = TRUE
    /\ builtFrom = NoInput
    /\ nodes = <<>> /\ edges = <<>>
    /\ allNodes = <<>> /\ allEdges = <<>> /\ nsEdgesOf = <<>>
    /\ passes = 0
    /\ dagre = "top" /\ fetchRound = [c \in Collections |-> 0]
    /\ OtherIdle
    /\ Idle

\* a handleDashboardSelect that leaves the detail selected
handleDashboardSelectKeepingDetail ==
    /\ currentView' = "dashboard"
    /\ selectedResource' = Null
    /\ UNCHANGED selectedDetail

handleDashboardSelect ==
    /\ currentView' = "dashboard"
    /\ selectedResource' = Null
    /\ selectedDetail' = Null

handleResourceSelect(resource) ==
    /\ currentView' = "resources"
    /\ selectedResource' = resource
    /\ selectedDetail' = Null

\* App's handleRowClick; the table passes no initialData
handleRowClick(resourceName, ns) ==
    /\ selectedDetail' = [resourceName |-> resourceName, namespace |-> ns]
    /\ detailPanelOpen' = TRUE

\* a kind is chosen in the sidebar
ResourceSelect ==
    /\ \E resource \in ApiResources : handleResourceSelect(resource)
    /\ UNCHANGED <<detailPanelOpen, isLargeScreen, clicked, navigated>>
    /\ UNCHANGED <<dashVars, deleteVars, otherVars, statusVars, profileVars, cellVars>>

\* the cluster map is chosen in the sidebar
DashboardSelect ==
    /\ handleDashboardSelect
    /\ UNCHANGED <<detailPanelOpen, isLargeScreen, clicked, navigated>>
    /\ UNCHANGED <<dashVars, deleteVars, otherVars, statusVars, profileVars, cellVars>>

\* ResourceTable's handleRowClick for a row of the table
RowClick ==
    /\ TableShown
    /\ \E row \in Range(Rows) :
           /\ row.name # ""
           /\ handleRowClick(row.name, row.namespace)
    /\ UNCHANGED <<currentView, selectedResource, isLargeScreen, clicked, navigated>>
    /\ UNCHANGED <<dashVars, deleteVars, otherVars, statusVars, profileVars, cellVars>>

\* onNavigate from a related resource of the detail panel or from a node of the
\* cluster map
Navigate ==
    /\ DetailShown \/ currentView = "dashboard"
    /\ \E resource \in ApiResources, name \in Names, ns \in Namespaces :
           handleNavigate(<<[resource |-> resource, name |-> name, namespace |-> ns]>>)
    /\ UNCHANGED <<currentView, isLargeScreen, clicked, navigated>>
    /\ UNCHANGED <<dashVars, deleteVars, otherVars, statusVars, profileVars, cellVars>>

\* handleToggleDetailPanel, the detail panel's onClose
ToggleDetailPanel ==
    /\ DetailShown
    /\ detailPanelOpen' = ~detailPanelOpen
    /\ UNCHANGED <<currentView, selectedResource, selectedDetail, isLargeScreen>>
    /\ UNCHANGED <<clicked, navigated>>
    /\ UNCHANGED <<dashVars, deleteVars, otherVars, statusVars, profileVars, cellVars>>

\* the keydown handler, for the Escape key
Escape ==
    /\ detailPanelOpen' = FALSE
    /\ UNCHANGED <<currentView, selectedResource, selectedDetail, isLargeScreen>>
    /\ UNCHANGED <<clicked, navigated>>
    /\ UNCHANGED <<dashVars, deleteVars, otherVars, statusVars, profileVars, cellVars>>

\* the window is resized across 1280: the effect syncs the panel
Resize ==
    /\ isLargeScreen' = ~isLargeScreen
    /\ detailPanelOpen' = isLargeScreen'
    /\ UNCHANGED <<currentView, selectedResource, selectedDetail>>
    /\ UNCHANGED <<clicked, navigated>>
    /\ UNCHANGED <<dashVars, deleteVars, otherVars, statusVars, profileVars, cellVars>>

NextApp ==
    \/ ResourceSelect
    \/ DashboardSelect
    \/ RowClick
    \/ Navigate
    \/ ToggleDetailPanel
    \/ Escape
    \/ Resize

SpecApp == InitApp /\ [][NextApp]_vars

\* ResourceTable's isRowSelected, given the selectedResourceName prop
isRowSelected(row, selectedResourceName) == Str(row.name) = selectedResourceName

\* selectedResourceName={selectedDetail?.resourceName}
selectedResourceName ==
    IF selectedDetail = Null THEN Undefined ELSE Str(selectedDetail.resourceName)

\* C24: a selected detail comes with a selected resource; a change of view
\* clears the detail, and a newly selected detail opens the panel.
C24_DetailImpliesResource ==
    /\ [](selectedDetail # Null => selectedResource # Null)
    /\ [][/\ currentView' # currentView => selectedDetail' = Null
          /\ (selectedDetail' # selectedDetail /\ selectedDetail' # Null) => detailPanelOpen']_vars

\* a row was clicked and the panel closed again: the detail and the kind stay
C24_Witness ==
    /\ selectedDetail # Null /\ selectedResource # Null
    /\ ~detailPanelOpen /\ currentView = "resources"

Marked == {i \in DOMAIN Rows : isRowSelected(Rows[i], selectedResourceName)}

\* C28: of the rows of the table at most one is marked selected, and it is the
\* row of the record whose detail is selected.
C28_OneRowSelected ==
    TableShown =>
        /\ Cardinality(Marked) <= 1
        /\ \A i \in Marked :
               /\ Rows[i].name = selectedDetail.resourceName
               /\ Rows[i].namespace = selectedDetail.namespace

-----------------------------------------------------------------------------
(* Sidebar: the search box and the expanded categories.  A handler is taken   *)
(* with the render and the effect that follow it.                             *)

Categories == {"Workloads", "Network", "Config"}
SearchTexts == {"", "p", "po"}

\* a search effect that saves the expanded set whenever there is a search text
SearchEffectSavingAlways(text, prevSearch, expanded, prevExpanded, grouped) ==
    IF text # ""
    THEN [expandedCategories |-> grouped, prevExpandedRef |-> expanded,
          prevSearchRef |-> text]
    ELSE IF text = "" /\ prevSearch # ""
    THEN [expandedCategories |-> prevExpanded, prevExpandedRef |-> prevExpanded,
          prevSearchRef |-> text]
    ELSE [expandedCategories |-> expanded, prevExpandedRef |-> prevExpanded,
          prevSearchRef |-> text]

\* the effect on [search, groupedResources], run in the render that has the
\* search text, the expanded set and the categories given
SearchEffect(text, prevSearch, expanded, prevExpanded, grouped) ==
    IF text # "" /\ prevSearch = ""
    THEN [expandedCategories |-> grouped, prevExpandedRef |-> expanded,
          prevSearchRef |-> text]
    ELSE IF text = "" /\ prevSearch # ""
    THEN [expandedCategories |-> prevExpanded, prevExpandedRef |-> prevExpanded,
          prevSearchRef |-> text]
    ELSE [expandedCategories |-> expanded, prevExpandedRef |-> prevExpanded,
          prevSearchRef |-> text]

\* the state the effect leaves
AfterEffect(effect) ==
    /\ expandedCategories' = effect.expandedCategories
    /\ prevExpandedRef' = effect.prevExpandedRef
    /\ prevSearchRef' = effect.prevSearchRef

\* isExpanded of a section
isExpanded(category) == IF search # "" THEN TRUE ELSE category \in expandedCategories

\* the Sidebar mounted; the API resources may be cached already
InitSidebar ==
    /\ search = "" /\ prevSearchRef = ""
    /\ expandedCategories = {"Workloads", "Network"}
    /\ prevExpandedRef = {"Workloads", "Network"}
    /\ groupedResources \in {{}, Categories}
    /\ DeleteIdle /\ AppIdle /\ ContextIdle
    /\ DashOff
    /\ Idle

\* the search input's onChange
SetSearch ==
    /\ \E text \in SearchTexts \ {search} :
           /\ search' = text
           /\ AfterEffect(SearchEffect(text, prevSearchRef, expandedCategories,
                                       prevExpandedRef, groupedResources))
    /\ UNCHANGED groupedResources
    /\ UNCHANGED <<dashVars, deleteVars, appVars, navVars, statusVars, profileVars, cellVars, contextVars>>

\* a click on the title of a section
toggleCategory ==
    /\ \E category \in groupedResources :
           expandedCategories' =
               IF category \in expandedCategories
               THEN expandedCategories \ {category}
               ELSE expandedCategories \cup {category}
    /\ UNCHANGED <<search, prevSearchRef, prevExpandedRef, groupedResources>>
    /\ UNCHANGED <<dashVars, deleteVars, appVars, navVars, statusVars, profileVars, cellVars, contextVars>>

\* useApiResources delivers another list: groupedResources is a new map
ApiResourcesFetched ==
    /\ \E grouped \in (SUBSET Categories) \ {{}} :
           /\ groupedResources' = grouped
           /\ AfterEffect(SearchEffect(search, prevSearchRef, expandedCategories,
                                       prevExpandedRef, grouped))
    /\ UNCHANGED search
    /\ UNCHANGED <<dashVars, deleteVars, appVars, navVars, statusVars, profileVars, cellVars, contextVars>>

NextSidebar ==
    \/ SetSearch
    \/ toggleCategory
    \/ ApiResourcesFetched

SpecSidebar == InitSidebar /\ [][NextSidebar]_vars

\* C25: a search that begins expands every category and saves the expanded set
\* of that moment; nothing done while searching changes what is saved; a search
\* that ends restores exactly the saved set.
C25_SearchRoundTrip ==
    /\ [](search # "" => \A category \in groupedResources : isExpanded(category))
    /\ [][/\ (search = "" /\ search' # "") =>
                 /\ expandedCategories' = groupedResources
                 /\ prevExpandedRef' = expandedCategories
          /\ (search # "" /\ search' # "") => prevExpandedRef' = prevExpandedRef
          /\ (search # "" /\ search' = "") => expandedCategories' = prevExpandedRef]_vars

\* a search ended after a toggle made while searching, and the set expanded
\* before it, which was not the initial one, is back
C25_Witness ==
    /\ search = "" /\ prevSearchRef = ""
    /\ expandedCategories = prevExpandedRef
    /\ expandedCategories = {"Config"}

-----------------------------------------------------------------------------
(* Switching the context: the Go Client behind App.SetActiveContext, and the  *)
(* queries of useKube with the useSetActiveContext mutation.  A client set or *)
(* a cached result is known by the context it was made for or fetched under.  *)

Contexts == {"dev", "prod"}
Nil == "nil"

\* the first elements of the query keys of useKube
QueryKeys ==
    {"kube-contexts", "current-context", "api-resources", "namespaces",
     "resources", "resource", "related-resources"}

\* the queries answered from the kubeconfig; the others are answered by the
\* cluster
ConfigQueries == {"kube-contexts", "current-context"}

\* Client.Init, where building the clients from Config succeeds or fails
ClientInit(c, ok) ==
    IF ok
    THEN [client |-> [c EXCEPT !.Clientset = c.Config, !.DynamicClient = c.Config,
                               !.DiscoveryClient = c.Config],
          err |-> Nil]
    ELSE [client |-> c, err |-> "error"]

\* Client.SetContext
SetContext(c, name, ok) == ClientInit([c EXCEPT !.Config = name], ok)

\* invalidateQueries({queryKey: [key]}) for each of the keys
Invalidated(q, keys) ==
    [k \in DOMAIN q |-> IF k \in keys /\ q[k].data # Nil
                        THEN [q[k] EXCEPT !.isInvalidated = TRUE] ELSE q[k]]

\* the onSuccess of useSetActiveContext
onSuccess(q) ==
    Invalidated(q, {"current-context", "api-resources", "namespaces", "resources"})

\* the app started: NewApp made the client for the kubeconfig's context and
\* startup called Init; queries may have been fetched since
InitContext ==
    /\ \E ok \in BOOLEAN, cached \in SUBSET QueryKeys :
           /\ k8sClient =
                  ClientInit([Config |-> "dev", Clientset |-> Nil, DynamicClient |-> Nil,
                              DiscoveryClient |-> Nil], ok).client
           /\ kubeQueries =
                  [k \in QueryKeys |->
                      IF k \in cached /\ (ok \/ k \in ConfigQueries)
                      THEN [data |-> "dev", isInvalidated |-> FALSE]
                      ELSE [data |-> Nil, isInvalidated |-> FALSE]]
    /\ err = Nil
    /\ setContext = [status |-> "idle", variables |-> Nil, submittedAt |-> 0]
    /\ SidebarIdle
    /\ DeleteIdle /\ AppIdle
    /\ DashOff
    /\ Idle

\* ContextSwitcher's handleContextChange: mutate(newContext) (submittedAt
\* counts the calls of mutate)
handleContextChange ==
    /\ setContext.status # "pending"
    /\ setContext.submittedAt < MaxSwitches
    /\ \E newContext \in Contexts :
           setContext' = [status |-> "pending", variables |-> newContext,
                          submittedAt |-> setContext.submittedAt + 1]
    /\ UNCHANGED <<k8sClient, err, kubeQueries>>
    /\ UNCHANGED <<dashVars, deleteVars, appVars, sidebarVars, navVars, statusVars, profileVars, cellVars>>

\* App.SetActiveContext runs and the mutation settles
SetActiveContext ==
    /\ setContext.status = "pending"
    /\ \E ok \in BOOLEAN :
           LET call == SetContext(k8sClient, setContext.variables, ok)
           IN  /\ k8sClient' = call.client
               /\ err' = call.err
               /\ setContext' = [setContext EXCEPT
                                    !.status = IF call.err = Nil THEN "success" ELSE "error"]
               /\ kubeQueries' = IF call.err = Nil THEN onSuccess(kubeQueries)
                                 ELSE kubeQueries
    /\ UNCHANGED <<dashVars, deleteVars, appVars, sidebarVars, navVars, statusVars, profileVars, cellVars>>

\* App.InitDefaultContext, called while no current context is known, and the
\* onSuccess of useInitDefaultContext
InitDefaultContext ==
    /\ kubeQueries["current-context"].data = Nil
    /\ kubeQueries["kube-contexts"].data # Nil
    /\ setContext.status # "pending"
    /\ \E ok \in BOOLEAN :
           LET call == ClientInit(k8sClient, ok)
           IN  /\ k8sClient' = call.client
               /\ err' = call.err
               /\ kubeQueries' =
                      IF call.err = Nil
                      THEN Invalidated(kubeQueries,
                                       {"current-context", "api-resources", "namespaces"})
                      ELSE kubeQueries
    /\ UNCHANGED setContext
    /\ UNCHANGED <<dashVars, deleteVars, appVars, sidebarVars, navVars, statusVars, profileVars, cellVars>>

\* a query is fetched, on mount or after it was invalidated, and answered from
\* the kubeconfig or by the cluster the clients are for
QueryFetched ==
    /\ setContext.status # "pending"
    /\ \E k \in QueryKeys :
           /\ k \in ConfigQueries \/ k8sClient.DynamicClient # Nil
           /\ kubeQueries' =
                  [kubeQueries EXCEPT
                      ![k] = [data |-> IF k \in ConfigQueries THEN k8sClient.Config
                                       ELSE k8sClient.DynamicClient,
                              isInvalidated |-> FALSE]]
           /\ kubeQueries' # kubeQueries
    /\ UNCHANGED <<k8sClient, err, setContext>>
    /\ UNCHANGED <<dashVars, deleteVars, appVars, sidebarVars, navVars, statusVars, profileVars, cellVars>>

NextContext ==
    \/ handleContextChange
    \/ SetActiveContext
    \/ InitDefaultContext
    \/ QueryFetched

SpecContext == InitContext /\ [][NextContext]_vars

Clients == {k8sClient.Clientset, k8sClient.DynamicClient, k8sClient.DiscoveryClient}

\* C29: a call that returns an error leaves the Client as it was, a SetContext
\* that succeeds leaves all four fields on the new context, and Config never
\* names one context while the clients are for another.
C29_SetContextAtomic ==
    /\ [](Clients \subseteq {Nil, k8sClient.Config})
    /\ [][/\ err' = "error" => k8sClient' = k8sClient
          /\ setContext'.status = "success" =>
                 Clients' \cup {k8sClient'.Config} = {setContext'.variables}]_vars

\* C30: once a switch has succeeded, whatever a query holds from another
\* context than the one now active is invalidated.
C30_SwitchInvalidatesAll ==
    setContext.status = "success" =>
        \A k \in QueryKeys :
            kubeQueries[k].data \notin {Nil, k8sClient.Config} => kubeQueries[k].isInvalidated

-----------------------------------------------------------------------------
(* Deleting a resource: properties *)

Pending == mutation.status = "pending"
Deleted == mutation.variables

\* what onMutate found cached for the list of the delete's key, and for the
\* record
ListBefore ==
    IF mutation.context.previousResources = <<>> THEN Undefined
    ELSE mutation.context.previousResources[1].queryData
ResourceBefore == mutation.context.previousResource

\* the roll back's result for an entry: the value cached before, or for an
\* entry that held nothing then, what it holds now
RolledBack(before, current) == IF before # Undefined THEN before ELSE current

\* C21: when the delete fails, the list query of the delete's key and the
\* query of the deleted record hold again exactly what they held when onMutate
\* began; what onMutate found cached is what the roll back restores.
C21_RollbackRestores ==
    [][/\ (~Pending /\ Pending') =>
              /\ ListBefore' = queries[listQueryKey(Deleted')].data
              /\ ResourceBefore' = resourceQueries[Deleted']
       /\ (Pending /\ mutation'.status = "error") =>
              /\ queries'[listQueryKey(Deleted)].data =
                     RolledBack(ListBefore, queries[listQueryKey(Deleted)].data)
              /\ resourceQueries'[Deleted] =
                     RolledBack(ResourceBefore, resourceQueries[Deleted])]_vars

\* a failed delete of a record whose list and detail were cached: both are back
C21_Witness ==
    /\ mutation.status = "error"
    /\ ListBefore # Undefined /\ ResourceBefore # Undefined
    /\ queries[listQueryKey(Deleted)].data = ListBefore
    /\ Deleted \in Range(Items(ListBefore))
    /\ Len(Items(ListBefore)) > 1
    /\ resourceQueries[Deleted] = ResourceBefore

\* the list the table shows
Viewed == queries[params(namespace)].data

\* the record a delete of d is to remove
IsDeleted(r, d) ==
    /\ r.name = d.name
    /\ (r.namespace = "" /\ d.namespace = "") \/ r.namespace = d.namespace

\* C22: the optimistic update takes from the list the table shows exactly the
\* record being deleted, whatever namespace filter the list was fetched with.
C22_RemovesExactlyDeleted ==
    [][(~Pending /\ Pending') =>
          Viewed' = Arr(SelectSeq(Items(Viewed), LAMBDA r : ~IsDeleted(r, Deleted')))]_vars

\* C23: while the delete is pending, the list the optimistic update changed
\* does not hold the deleted record.
C23_NoWriteBackWhilePending ==
    Pending => Deleted \notin Range(Items(queries[listQueryKey(Deleted)].data))

====
